---- MODULE Spec2Model ----
(***************************************************************************)
(* A model of the batch orchestration core of the video collection         *)
(* pipeline: ParallelScraperManager (scrapers/parallel_scraper_manager.py) *)
(* and EnhancedBatchProcessor (processors/enhanced_batch_processor.py).    *)
(*                                                                         *)
(* Durations and targets are integers counting tenths of a second, so that *)
(* target_hours = 0.001 (3.6 s) is 36 and a 20 s video is 200.             *)
(***************************************************************************)
EXTENDS Integers, Sequences, FiniteSets, TLC

(***************************************************************************)
(* Bounds of the model and constants of the program.                       *)
(***************************************************************************)
\* Source names; the explorations with free search results use two of them.
Sources == {"s1", "s2", "s3"}
TwoSources == {"s1", "s2"}

\* config "max_videos_per_scraper" of the manager, kept small, and its
\* default.
MaxVideosPerScraper == 2
DefaultMaxVideosPerScraper == 100

\* The longest page a search returns.
MaxPageLen == 2

\* How many times run_scrapers_until_target is called in one behaviour of
\* the exploration of successive scraping rounds.
MaxCalls == 2
MaxRegistrations == 2

\* estimated_video_length: 20 s.
EstimatedVideoLength == 200

\* The error budget of a scraper task.
ErrorBudget == 3

\* A short video, 10 s.
ShortDuration == 100

\* Durations a source may report; NoDuration stands for a record that has
\* no "duration" key.
NoDuration == 0 - 1
Durations == {ShortDuration, EstimatedVideoLength, NoDuration}

\* target_hours * 3600 of a call: 3.6 s (0.001 h), 30 s and 50 s.
TinyTarget == 36
MidTarget == 300
BigTarget == 500
Targets == {TinyTarget, BigTarget}

(***************************************************************************)
(* State of the ParallelScraperManager and of one call of                  *)
(* run_scrapers_until_target with its scraper tasks.                       *)
(***************************************************************************)
VARIABLES
    scrapers,        \* self.scrapers: the registered names
    registrations,   \* how many times register_scraper was called for each name
    rate_limit_lock, \* the task that holds self.rate_limit_lock, or "free"
    last_global_request_time,
    clock,           \* time.time(), in ticks of half a second
    rl_pc,           \* where each task is in _global_rate_limit
    current_time,    \* current_time of each task's _global_rate_limit call
    scraper_status,  \* self.scraper_status: name -> [active, error_count]
    shutdown_flag,   \* self.shutdown_flag
    results_queue,   \* self.results_queue
    target_hours,    \* self.target_hours * 3600
    max_videos_per_scraper, \* self.max_videos_per_scraper
    mpc,             \* position of the thread running run_scrapers_until_target
    calls,           \* calls of run_scrapers_until_target made so far
    queries,         \* the queries argument: the source names in dict order
    futures,         \* the futures dict of the call: names, in submission order
    all_videos,      \* all_videos of the call
    total_seconds,   \* total_seconds of the polling loop
    returned,        \* the list the call returned
    wpc,             \* position of each scraper task
    page,            \* page of each task
    videos,          \* videos of each task
    to_add,          \* to_add of each task while it is being pushed
    put_idx,         \* how many records of to_add are pushed
    searches,        \* search_videos calls of each task in its lifetime
    raises,          \* how many of them raised
    end_reason       \* why each task left its loop

(***************************************************************************)
(* State of the EnhancedBatchProcessor used by _process_video_batch, and   *)
(* of one call of it with its download and validation tasks.               *)
(***************************************************************************)
VARIABLES
    output_destination,  \* self.output_destination
    total_video_seconds, \* self.total_video_seconds
    slice,               \* the videos argument of _process_video_batch
    ppc,                 \* position of the thread running _process_video_batch
    pool_queue,          \* work queue of the ThreadPoolExecutor
    dl,                  \* state of each download task
    val,                 \* state of each validation task
    up,                  \* what the upload or the local move of each video did
    taken,               \* the futures as_completed has yielded so far
    results,             \* the results dict
    file                 \* where the file of each video is

(***************************************************************************)
(* State of the EnhancedBatchProcessor used by process_batch and           *)
(* resume_batch, and of one call of process_batch.  A Python value whose   *)
(* type matters is a record [k, n, s, d]: its type k, and its number n,    *)
(* its text s or its keys d.                                               *)
(***************************************************************************)
VARIABLES
    validation_pipeline, \* self.validation_pipeline is set
    cloud_uploader,      \* self.cloud_uploader is set
    batch_size,          \* self.batch_size
    bp_target_hours,     \* self.target_hours of the processor; n is hours * 36000
    disk_space_threshold, \* self.disk_space_threshold
    bp_shutdown_flag,    \* self.shutdown_flag of the processor
    state,               \* self.state: batches, last_batch_id and the totals
    state_file,          \* the JSON file at self.state_file
    saves,               \* how many times the state file was written
    total_videos,        \* self.total_videos_processed, _validated, _uploaded, _failed
    now,                 \* int(time.time())
    pb_pc,               \* position of the thread running process_batch
    bcalls,              \* calls of process_batch and resume_batch made so far
    frame,               \* the parameters of the call, as Python bound them
    batch_id,            \* batch_id of the call
    pb_result,           \* what the call returned
    scraped,             \* videos, as run_scrapers_until_target returned it
    filtered_videos,     \* filtered_videos of the round
    start_idx,           \* start_idx of the slice loop
    counts,              \* processed_count, validated_count, uploaded_count, failed_count
    sent,                \* the videos the call handed to _process_video_batch, in order
    callers,             \* the process_batch calls of main's threads on the one processor
    total_videos_found,  \* total_videos_found of the call
    rounds,              \* scraping rounds made so far
    via,                 \* who called process_batch: the caller or resume_batch
    resumed,             \* the BatchState resume_batch read
    entry                \* the configuration and durable state when the call began

batchvars == <<validation_pipeline, cloud_uploader, batch_size, bp_target_hours,
               disk_space_threshold, bp_shutdown_flag, state, state_file, saves,
               total_videos, now, pb_pc, bcalls, frame, batch_id, pb_result, scraped,
               filtered_videos, start_idx, counts, sent, callers, total_videos_found, rounds, via,
               resumed, entry>>

pipevars == <<output_destination, total_video_seconds, slice, ppc, pool_queue, dl, val, up,
              taken, results, file>>

ratevars == <<rate_limit_lock, last_global_request_time, clock, rl_pc, current_time>>

mgrvars == <<scrapers, registrations, ratevars, scraper_status, shutdown_flag, results_queue, target_hours,
             max_videos_per_scraper,
             mpc, calls, queries, futures, all_videos, total_seconds, returned>>
taskvars == <<wpc, page, videos, to_add, put_idx, searches, raises, end_reason>>

\* What the actions of the scraper manager leave alone.
nonmgr == <<pipevars, batchvars>>

(***************************************************************************)
(* Helpers.                                                                *)
(***************************************************************************)
RECURSIVE SumDur(_)
SumDur(seq) == IF seq = <<>> THEN 0 ELSE Head(seq).dur + SumDur(Tail(seq))

Range(seq) == {seq[i] : i \in 1..Len(seq)}

Min(a, b) == IF a < b THEN a ELSE b

\* Sequences of distinct source names: the key order of a queries dict.
QueryLists == {<<s, t>> : s \in TwoSources, t \in TwoSources}
              \ {<<s, s>> : s \in TwoSources}

\* A video record as a scraper returns it.
Video(s, n, d) == [src |-> s, id |-> n, dur |-> d]

\* The pages a search_videos call of source s may return, when the source
\* has returned k records before: a source numbers its records 1, 2, ...
RECURSIVE PagesOf(_, _, _, _)
PagesOf(s, k, n, durs) ==
    IF n = 0 THEN {<<>>}
    ELSE {Append(pre, Video(s, k + n, d)) : pre \in PagesOf(s, k, n - 1, durs), d \in durs}

SearchResults(s, k, maxlen, durs) == UNION {PagesOf(s, k, n, durs) : n \in 0..maxlen}

\* "Ensure each video has a duration field".
EnsureDuration(pg) ==
    [i \in 1..Len(pg) |->
        IF pg[i].dur = NoDuration
        THEN [pg[i] EXCEPT !.dur = EstimatedVideoLength]
        ELSE pg[i]]

InitialStatus == [active |-> FALSE, error_count |-> 0]

(***************************************************************************)
(* The trimming pass of run_scrapers_until_target.                         *)
(***************************************************************************)
\* A trimming pass that tests the total before the record is added, and so
\* lets the record that crosses the target through.
RECURSIVE TrimLate(_, _, _)
TrimLate(seq, accumulated_seconds, target) ==
    IF seq = <<>> THEN <<>>
    ELSE IF accumulated_seconds > target THEN <<>>
    ELSE <<Head(seq)>> \o TrimLate(Tail(seq), accumulated_seconds + Head(seq).dur, target)

RECURSIVE TrimFrom(_, _, _)
TrimFrom(seq, accumulated_seconds, target) ==
    IF seq = <<>> THEN <<>>
    ELSE IF accumulated_seconds + Head(seq).dur > target THEN <<>>
    ELSE <<Head(seq)>> \o TrimFrom(Tail(seq), accumulated_seconds + Head(seq).dur, target)

TrimOvershoot(seq, target) == TrimLate(seq, 0, target)

\* A trimming pass that always lets the first record through.
TrimKeepFirst(seq, target) ==
    IF seq = <<>> THEN <<>> ELSE <<Head(seq)>> \o TrimFrom(Tail(seq), Head(seq).dur, target)

Trim(seq, target) == TrimFrom(seq, 0, target)

\* The running total of the polling loop: durations that are > 0.
RECURSIVE AddSeconds(_, _)
AddSeconds(total, seq) ==
    IF seq = <<>> THEN total
    ELSE AddSeconds(IF Head(seq).dur > 0 THEN total + Head(seq).dur ELSE total, Tail(seq))

\* Lines 44-46: the global cooldown of a fresh manager.  The limit is one
\* second, two ticks of the clock; time.time() is far from 0.
GlobalRateLimit == 2
MaxClock == 8
RateInit ==
    /\ rate_limit_lock = "free"
    /\ last_global_request_time = 0
    /\ clock = GlobalRateLimit
    /\ rl_pc = [s \in Sources |-> "out"]
    /\ current_time = [s \in Sources |-> 0]

(***************************************************************************)
(* Initial state: a freshly constructed manager.                           *)
(***************************************************************************)
MgrInit ==
    /\ scrapers = {}
    /\ registrations = [s \in Sources |-> 0]
    /\ RateInit
    /\ scraper_status = [s \in Sources |-> InitialStatus]
    /\ shutdown_flag = FALSE
    /\ results_queue = <<>>
    /\ target_hours = BigTarget
    /\ max_videos_per_scraper = MaxVideosPerScraper
    /\ mpc = "idle"
    /\ calls = 0
    /\ queries = <<>>
    /\ futures = <<>>
    /\ all_videos = <<>>
    /\ total_seconds = 0
    /\ returned = <<>>

TaskInit ==
    /\ wpc = [s \in Sources |-> "none"]
    /\ page = [s \in Sources |-> 1]
    /\ videos = [s \in Sources |-> <<>>]
    /\ to_add = [s \in Sources |-> <<>>]
    /\ put_idx = [s \in Sources |-> 0]
    /\ searches = [s \in Sources |-> 0]
    /\ raises = [s \in Sources |-> 0]
    /\ end_reason = [s \in Sources |-> "none"]

\* A freshly constructed processor, before any _process_video_batch.
PipeInit ==
    /\ output_destination = "local"
    /\ total_video_seconds = 0
    /\ slice = <<>>
    /\ ppc = "idle"
    /\ pool_queue = <<>>
    /\ dl = <<>>
    /\ val = <<>>
    /\ up = <<>>
    /\ taken = {}
    /\ results = [processed |-> 0, validated |-> 0, uploaded |-> 0, failed |-> 0, seconds |-> 0]
    /\ file = <<>>

(***************************************************************************)
(* Python values of the batch processor.                                   *)
(***************************************************************************)
None == [k |-> "none", n |-> 0, s |-> "", d |-> <<>>]
PyInt(n) == [k |-> "int", n |-> n, s |-> "", d |-> <<>>]
PyFloat(n) == [k |-> "float", n |-> n, s |-> "", d |-> <<>>]
PyStr(s) == [k |-> "str", n |-> 0, s |-> s, d |-> <<>>]
\* A dict, by its keys in order: the sources or queries of a call.
PyDict(d) == [k |-> "dict", n |-> 0, s |-> "", d |-> d]
\* The dict {"disk_space_threshold": n}.
ThresholdOverride(n) == [k |-> "dict", n |-> n, s |-> "disk_space_threshold", d |-> <<>>]

IsNumber(v) == v.k \in {"int", "float"}

\* The configuration of the processor: config "batch_size", "target_hours"
\* (one hour, an int, as the default of 1000 is) and "disk_space_threshold".
ConfigBatchSize == 2
HourTarget == 36000
ConfigThreshold == 2
OverrideThreshold == 1
MaxTime == 2
MaxBatchCalls == 2
MaxRounds == 2

NoBatch == 0 - 1
NoTime == 0 - 1

NoBatchState ==
    [id |-> NoBatch, queries |-> <<>>, batch_size |-> None, target_hours |-> None,
     output_destination |-> "", start_time |-> NoTime, end_time |-> NoTime,
     videos_found |-> 0, videos_downloaded |-> 0, videos_validated |-> 0,
     videos_uploaded |-> 0, videos_failed |-> 0, video_seconds |-> 0,
     status |-> "none", error |-> ""]

NoCounts == [processed |-> 0, validated |-> 0, uploaded |-> 0, failed |-> 0]

\* The default state of _load_state.
DefaultState ==
    [batches |-> <<>>, last_batch_id |-> NoBatch, totals |-> NoCounts,
     total_video_seconds |-> 0]

NoFrame ==
    [sources |-> None, query |-> None, batch_size |-> None, target_hours |-> None,
     output_destination |-> None, config_override |-> None]

NoResult ==
    [success |-> FALSE, error |-> "", batch_id |-> NoBatch, videos_found |-> 0,
     videos_downloaded |-> 0, videos_validated |-> 0, videos_uploaded |-> 0,
     videos_failed |-> 0, video_seconds |-> 0]

\* The configured values and the durable state, as a call finds them.
Snapshot ==
    [batch_size |-> batch_size, target_hours |-> bp_target_hours,
     output_destination |-> output_destination,
     disk_space_threshold |-> disk_space_threshold,
     manager_target_hours |-> target_hours,
     state |-> state, state_file |-> state_file, saves |-> saves]

\* The threads of main's pool that call process_batch on the one processor
\* (one per source), and the locals of a thread that has not called yet.
MainThreads == {1, 2}
IdleCaller ==
    [pc |-> "idle", batch_id |-> NoBatch, stored |-> FALSE, validated |-> 0,
     validated_seconds |-> 0, read |-> 0, video_seconds |-> 0]

\* A freshly constructed processor with no state file.
BatchInit ==
    /\ validation_pipeline = FALSE
    /\ cloud_uploader = FALSE
    /\ batch_size = PyInt(ConfigBatchSize)
    /\ bp_target_hours = PyInt(HourTarget)
    /\ disk_space_threshold = ConfigThreshold
    /\ bp_shutdown_flag = FALSE
    /\ state = DefaultState
    /\ state_file = [exists |-> FALSE, state |-> DefaultState]
    /\ saves = 0
    /\ total_videos = NoCounts
    /\ now = 1
    /\ pb_pc = "idle"
    /\ bcalls = 0
    /\ frame = NoFrame
    /\ batch_id = NoBatch
    /\ pb_result = NoResult
    /\ scraped = <<>>
    /\ filtered_videos = <<>>
    /\ start_idx = 0
    /\ counts = NoCounts
    /\ sent = <<>>
    /\ callers = [t \in MainThreads |-> IdleCaller]
    /\ total_videos_found = 0
    /\ rounds = 0
    /\ via = "none"
    /\ resumed = NoBatchState

Init == MgrInit /\ TaskInit /\ PipeInit /\ BatchInit /\ entry = Snapshot

(***************************************************************************)
(* register_scraper                                                        *)
(***************************************************************************)
RegisterScraper(s) ==
    /\ mpc = "idle"
    /\ registrations[s] < MaxRegistrations
    /\ registrations' = [registrations EXCEPT ![s] = @ + 1]
    /\ UNCHANGED ratevars
    /\ scrapers' = scrapers \cup {s}
    /\ scraper_status' = [scraper_status EXCEPT ![s] = InitialStatus]
    /\ UNCHANGED <<shutdown_flag, results_queue, target_hours, max_videos_per_scraper, mpc, calls, queries,
                   futures, all_videos, total_seconds, returned>>
    /\ UNCHANGED taskvars
    /\ UNCHANGED nonmgr

(***************************************************************************)
(* _scraper_worker, one task per submitted source.                         *)
(***************************************************************************)
\* The finally block: the task returns its videos and its future is done.
Finish(s, why) ==
    /\ wpc' = [wpc EXCEPT ![s] = "done"]
    /\ end_reason' = [end_reason EXCEPT ![s] = why]

\* A worker thread of the pool takes the task.
WStart(s) ==
    /\ wpc[s] = "pending"
    /\ wpc' = [wpc EXCEPT ![s] = "loop"]
    /\ scraper_status' = [scraper_status EXCEPT ![s].active = TRUE]
    /\ UNCHANGED <<scrapers, registrations, ratevars, shutdown_flag, results_queue, target_hours, max_videos_per_scraper, mpc, calls,
                   queries, futures, all_videos, total_seconds, returned>>
    /\ UNCHANGED <<page, videos, to_add, put_idx, searches, raises, end_reason>>
    /\ UNCHANGED nonmgr

\* A loop of the task that does not test the shutdown flag.
WLoopIgnoresFlag(s) ==
    /\ wpc[s] = "loop"
    /\ IF Len(videos[s]) >= max_videos_per_scraper
       THEN /\ Finish(s, "max")
            /\ scraper_status' = [scraper_status EXCEPT ![s].active = FALSE]
       ELSE /\ wpc' = [wpc EXCEPT ![s] = "search"]
            /\ UNCHANGED <<end_reason, scraper_status>>
    /\ UNCHANGED <<scrapers, registrations, ratevars, shutdown_flag, results_queue, target_hours,
                   max_videos_per_scraper, mpc, calls, queries, futures, all_videos,
                   total_seconds, returned>>
    /\ UNCHANGED <<page, videos, to_add, put_idx, searches, raises>>
    /\ UNCHANGED nonmgr

\* while not self.shutdown_flag.is_set(): if videos_found >= max_videos: break
WLoop(s) ==
    /\ wpc[s] = "loop"
    /\ IF shutdown_flag
       THEN /\ Finish(s, "shutdown")
            /\ scraper_status' = [scraper_status EXCEPT ![s].active = FALSE]
       ELSE IF Len(videos[s]) >= max_videos_per_scraper
       THEN /\ Finish(s, "max")
            /\ scraper_status' = [scraper_status EXCEPT ![s].active = FALSE]
       ELSE /\ wpc' = [wpc EXCEPT ![s] = "search"]
            /\ UNCHANGED <<end_reason, scraper_status>>
    /\ UNCHANGED <<scrapers, registrations, ratevars, shutdown_flag, results_queue, target_hours, max_videos_per_scraper, mpc, calls,
                   queries, futures, all_videos, total_seconds, returned>>
    /\ UNCHANGED <<page, videos, to_add, put_idx, searches, raises>>
    /\ UNCHANGED nonmgr

\* _check_resources() is false: sleep and go round the loop again.
WPause(s) ==
    /\ wpc[s] = "search"
    /\ wpc' = [wpc EXCEPT ![s] = "loop"]
    /\ UNCHANGED mgrvars
    /\ UNCHANGED <<page, videos, to_add, put_idx, searches, raises, end_reason>>
    /\ UNCHANGED nonmgr

\* scraper.search_videos raises.
WSearchRaise(s) ==
    /\ wpc[s] = "search"
    /\ searches' = [searches EXCEPT ![s] = @ + 1]
    /\ raises' = [raises EXCEPT ![s] = @ + 1]
    /\ IF scraper_status[s].error_count + 1 >= ErrorBudget
       THEN /\ Finish(s, "errors")
            /\ scraper_status' = [scraper_status EXCEPT
                   ![s].error_count = @ + 1,
                   ![s].active = FALSE]
            /\ UNCHANGED page
       ELSE /\ wpc' = [wpc EXCEPT ![s] = "loop"]
            /\ page' = [page EXCEPT ![s] = @ + 1]
            /\ scraper_status' = [scraper_status EXCEPT
                   ![s].error_count = @ + 1]
            /\ UNCHANGED end_reason
    /\ UNCHANGED <<scrapers, registrations, ratevars, shutdown_flag, results_queue, target_hours, max_videos_per_scraper, mpc, calls,
                   queries, futures, all_videos, total_seconds, returned>>
    /\ UNCHANGED <<videos, to_add, put_idx>>
    /\ UNCHANGED nonmgr

\* scraper.search_videos returns a page.
WSearch(s, pages) ==
    /\ wpc[s] = "search"
    /\ searches' = [searches EXCEPT ![s] = @ + 1]
    /\ \E pg \in pages :
        LET page_results == EnsureDuration(pg)
            remaining == max_videos_per_scraper - Len(videos[s])
        IN  IF page_results = <<>>
            THEN /\ Finish(s, "empty")
                 /\ scraper_status' = [scraper_status EXCEPT ![s].active = FALSE]
                 /\ UNCHANGED <<to_add, put_idx>>
            ELSE /\ wpc' = [wpc EXCEPT ![s] = "put"]
                 /\ to_add' = [to_add EXCEPT
                        ![s] = SubSeq(page_results, 1, Min(remaining, Len(page_results)))]
                 /\ put_idx' = [put_idx EXCEPT ![s] = 0]
                 /\ UNCHANGED <<end_reason, scraper_status>>
    /\ UNCHANGED <<scrapers, registrations, ratevars, shutdown_flag, results_queue, target_hours, max_videos_per_scraper, mpc, calls,
                   queries, futures, all_videos, total_seconds, returned>>
    /\ UNCHANGED <<page, videos, raises>>
    /\ UNCHANGED nonmgr

\* After the last put: videos.extend(to_add), the status update, the test
\* of the maximum and the next page.
AfterPut(s) ==
    LET all == videos[s] \o to_add[s]
    IN  /\ videos' = [videos EXCEPT ![s] = all]
        /\ to_add' = [to_add EXCEPT ![s] = <<>>]
        /\ put_idx' = [put_idx EXCEPT ![s] = 0]
        /\ IF Len(all) >= max_videos_per_scraper
           THEN /\ Finish(s, "max")
                /\ scraper_status' = [scraper_status EXCEPT ![s].active = FALSE]
                /\ UNCHANGED page
           ELSE /\ wpc' = [wpc EXCEPT ![s] = "loop"]
                /\ page' = [page EXCEPT ![s] = @ + 1]
                /\ UNCHANGED <<end_reason, scraper_status>>

\* for video in to_add: self.results_queue.put((scraper_name, video)): one
\* put, and after the last one the rest of the loop body.
WPut(s) ==
    /\ wpc[s] = "put"
    /\ results_queue' = Append(results_queue, to_add[s][put_idx[s] + 1])
    /\ IF put_idx[s] + 1 < Len(to_add[s])
       THEN /\ put_idx' = [put_idx EXCEPT ![s] = @ + 1]
            /\ UNCHANGED <<wpc, videos, to_add, page, scraper_status, end_reason>>
       ELSE AfterPut(s)
    /\ UNCHANGED <<scrapers, registrations, ratevars, shutdown_flag, target_hours, max_videos_per_scraper, mpc,
                   calls, queries, futures, all_videos, total_seconds, returned>>
    /\ UNCHANGED <<searches, raises>>
    /\ UNCHANGED nonmgr

\* The schedule of the for loop in which no other thread runs between the
\* puts of one page.
WPutAll(s) ==
    /\ wpc[s] = "put"
    /\ put_idx[s] = 0
    /\ results_queue' = results_queue \o to_add[s]
    /\ AfterPut(s)
    /\ UNCHANGED <<scrapers, registrations, ratevars, shutdown_flag, target_hours, max_videos_per_scraper, mpc,
                   calls, queries, futures, all_videos, total_seconds, returned>>
    /\ UNCHANGED <<searches, raises>>
    /\ UNCHANGED nonmgr

(***************************************************************************)
(* run_scrapers_until_target                                               *)
(***************************************************************************)
\* A submission that launches one task for every registration of a name.
RECURSIVE SubmittedTasksPerRegistration(_)
SubmittedTasksPerRegistration(qs) ==
    IF qs = <<>> THEN <<>>
    ELSE [i \in 1..registrations[Head(qs)] |-> Head(qs)]
         \o SubmittedTasksPerRegistration(Tail(qs))

\* Lines 342-349: one future for each name of queries that is registered.
SubmittedTasks(qs) == SelectSeq(qs, LAMBDA s : s \in scrapers)

\* The call: the target override and the submission of one task per
\* registered source of queries.
RunScrapersUntilTarget(qs, t, limit) ==
    /\ mpc \in {"idle", "returned"}
    /\ calls < limit
    /\ calls' = calls + 1
    /\ target_hours' = t
    /\ queries' = qs
    /\ futures' = SubmittedTasks(qs)
    /\ wpc' = [s \in Sources |-> IF s \in Range(qs) \cap scrapers THEN "pending" ELSE "none"]
    /\ page' = [s \in Sources |-> 1]
    /\ videos' = [s \in Sources |-> <<>>]
    /\ to_add' = [s \in Sources |-> <<>>]
    /\ put_idx' = [s \in Sources |-> 0]
    /\ searches' = [s \in Sources |-> 0]
    /\ raises' = [s \in Sources |-> 0]
    /\ end_reason' = [s \in Sources |-> "none"]
    /\ all_videos' = <<>>
    /\ total_seconds' = 0
    /\ returned' = <<>>
    /\ mpc' = "while"
    /\ UNCHANGED <<scrapers, registrations, ratevars, scraper_status, shutdown_flag, results_queue,
                   max_videos_per_scraper>>
    /\ UNCHANGED nonmgr

\* while futures and total_seconds < target: if shutdown_flag: break
MWhile ==
    /\ mpc = "while"
    /\ mpc' = IF futures # <<>> /\ total_seconds < target_hours /\ ~shutdown_flag
              THEN "scan" ELSE "cancel"
    /\ UNCHANGED <<scrapers, registrations, ratevars, scraper_status, shutdown_flag, results_queue, target_hours, max_videos_per_scraper,
                   calls, queries, futures, all_videos, total_seconds, returned>>
    /\ UNCHANGED taskvars
    /\ UNCHANGED nonmgr

\* The results of the futures that are done, in the order of the futures dict.
RECURSIVE DoneVideos(_)
DoneVideos(fs) ==
    IF fs = <<>> THEN <<>>
    ELSE (IF wpc[Head(fs)] = "done" THEN videos[Head(fs)] ELSE <<>>) \o DoneVideos(Tail(fs))

\* "Process any completed scrapers", "Remove completed futures", "Check if
\* we've reached the target".
MScan ==
    /\ mpc = "scan"
    /\ LET got == DoneVideos(futures)
           total == AddSeconds(total_seconds, got)
       IN  /\ all_videos' = all_videos \o got
           /\ total_seconds' = total
           /\ futures' = SelectSeq(futures, LAMBDA s : wpc[s] # "done")
           /\ IF total >= target_hours
              THEN shutdown_flag' = TRUE /\ mpc' = "cancel"
              ELSE UNCHANGED shutdown_flag /\ mpc' = "queue"
    /\ UNCHANGED <<scrapers, registrations, ratevars, scraper_status, results_queue, target_hours,
                   max_videos_per_scraper, calls, queries,
                   returned>>
    /\ UNCHANGED taskvars
    /\ UNCHANGED nonmgr

\* "Process videos from the queue": one get_nowait.
MQueueGet ==
    /\ mpc = "queue"
    /\ results_queue # <<>>
    /\ LET video == Head(results_queue)
           total == AddSeconds(total_seconds, <<video>>)
       IN  /\ results_queue' = Tail(results_queue)
           /\ all_videos' = Append(all_videos, video)
           /\ total_seconds' = total
           /\ IF total >= target_hours
              THEN shutdown_flag' = TRUE /\ mpc' = "while"
              ELSE UNCHANGED <<shutdown_flag, mpc>>
    /\ UNCHANGED <<scrapers, registrations, ratevars, scraper_status, target_hours, max_videos_per_scraper, calls,
                   queries, futures, returned>>
    /\ UNCHANGED taskvars
    /\ UNCHANGED nonmgr

\* The queue is empty: time.sleep(0.1) and back to the loop test.
MQueueEmpty ==
    /\ mpc = "queue"
    /\ results_queue = <<>>
    /\ mpc' = "while"
    /\ UNCHANGED <<scrapers, registrations, ratevars, scraper_status, shutdown_flag, results_queue, target_hours, max_videos_per_scraper,
                   calls, queries, futures, all_videos, total_seconds, returned>>
    /\ UNCHANGED taskvars
    /\ UNCHANGED nonmgr

\* "Cancel any remaining futures": a task no worker thread has taken yet is
\* cancelled and never runs.
MCancel ==
    /\ mpc = "cancel"
    /\ wpc' = [s \in Sources |->
                  IF s \in Range(futures) /\ wpc[s] = "pending" THEN "cancelled" ELSE wpc[s]]
    /\ mpc' = "join"
    /\ UNCHANGED <<scrapers, registrations, ratevars, scraper_status, shutdown_flag, results_queue, target_hours, max_videos_per_scraper,
                   calls, queries, futures, all_videos, total_seconds, returned>>
    /\ UNCHANGED <<page, videos, to_add, put_idx, searches, raises, end_reason>>
    /\ UNCHANGED nonmgr

\* A return that trims what the polling loop collected and leaves the
\* queue as it is.
MReturnNoDrain ==
    /\ mpc = "join"
    /\ \A s \in Sources : wpc[s] \in {"none", "done", "cancelled"}
    /\ returned' = Trim(all_videos, target_hours)
    /\ mpc' = "returned"
    /\ UNCHANGED <<scrapers, registrations, ratevars, scraper_status, shutdown_flag,
                   results_queue, target_hours, max_videos_per_scraper, calls, queries,
                   futures, all_videos, total_seconds>>
    /\ UNCHANGED taskvars
    /\ UNCHANGED nonmgr

\* Leaving the with block waits for the running tasks; then the queue is
\* drained, the list is trimmed and returned.
MReturn ==
    /\ mpc = "join"
    /\ \A s \in Sources : wpc[s] \in {"none", "done", "cancelled"}
    /\ LET collected == all_videos \o results_queue
       IN  /\ all_videos' = collected
           /\ returned' = Trim(collected, target_hours)
    /\ results_queue' = <<>>
    /\ mpc' = "returned"
    /\ UNCHANGED <<scrapers, registrations, ratevars, scraper_status, shutdown_flag, target_hours,
                   max_videos_per_scraper, calls, queries,
                   futures, total_seconds>>
    /\ UNCHANGED taskvars
    /\ UNCHANGED nonmgr

vars == <<mgrvars, taskvars, pipevars, batchvars>>

Next ==
    \/ \E s \in TwoSources : s \notin scrapers /\ RegisterScraper(s)
    \/ \E qs \in QueryLists, t \in Targets : RunScrapersUntilTarget(qs, t, 1)
    \/ \E s \in Sources : WStart(s)
    \/ \E s \in Sources : WLoop(s)
    \/ \E s \in Sources : WPause(s)
    \/ \E s \in Sources : WSearchRaise(s)
    \/ \E s \in Sources : WSearch(s, SearchResults(s, Len(videos[s]), MaxPageLen, Durations))
    \/ \E s \in Sources : WPut(s)
    \/ MWhile
    \/ MScan
    \/ MQueueGet
    \/ MQueueEmpty
    \/ MCancel
    \/ MReturn

Spec == Init /\ [][Next]_vars

(***************************************************************************)
(* Successive scraping rounds: process_batch repeats the call with the     *)
(* same arguments (enhanced_batch_processor.py line 347).  Every record    *)
(* lasts 20 s and a page holds one record.                                 *)
(***************************************************************************)
NextRounds ==
    \/ \E s \in TwoSources : s \notin scrapers /\ RegisterScraper(s)
    \/ \E qs \in QueryLists : calls = 0 /\ RunScrapersUntilTarget(qs, MidTarget, MaxCalls)
    \/ calls > 0 /\ RunScrapersUntilTarget(queries, target_hours, MaxCalls)
    \/ \E s \in Sources : WStart(s)
    \/ \E s \in Sources : WLoop(s)
    \/ \E s \in Sources : WPause(s)
    \/ \E s \in Sources : WSearchRaise(s)
    \/ \E s \in Sources : WSearch(s, SearchResults(s, Len(videos[s]), 1, {EstimatedVideoLength}))
    \/ \E s \in Sources : WPut(s)
    \/ MWhile
    \/ MScan
    \/ MQueueGet
    \/ MQueueEmpty
    \/ MCancel
    \/ MReturn

SpecRounds == Init /\ [][NextRounds]_vars

(***************************************************************************)
(* The scenario of three sources: each returns one page of 5 records of    *)
(* 20 s, the third record of s1 without a duration, and then an empty      *)
(* page; the manager has its default max_videos_per_scraper and the target *)
(* is 300 s.  The tasks push a page without being interleaved inside it.   *)
(***************************************************************************)
ScenarioPageLen == 5
ScenarioTarget == 3000
ScenarioQueries == <<"s1", "s2", "s3">>

ScenarioPage(s, p) ==
    IF p = 1
    THEN [i \in 1..ScenarioPageLen |->
            Video(s, i, IF s = "s1" /\ i = 3 THEN NoDuration ELSE EstimatedVideoLength)]
    ELSE <<>>

ScenarioRecords ==
    {Video(s, i, EstimatedVideoLength) : s \in Sources, i \in 1..ScenarioPageLen}

ScenarioInit ==
    /\ scrapers = Sources
    /\ registrations = [s \in Sources |-> 1]
    /\ RateInit
    /\ scraper_status = [s \in Sources |-> InitialStatus]
    /\ shutdown_flag = FALSE
    /\ results_queue = <<>>
    /\ target_hours = ScenarioTarget
    /\ max_videos_per_scraper = DefaultMaxVideosPerScraper
    /\ mpc = "idle"
    /\ calls = 0
    /\ queries = <<>>
    /\ futures = <<>>
    /\ all_videos = <<>>
    /\ total_seconds = 0
    /\ returned = <<>>
    /\ TaskInit
    /\ PipeInit
    /\ BatchInit
    /\ entry = Snapshot

NextScenario ==
    \/ RunScrapersUntilTarget(ScenarioQueries, ScenarioTarget, 1)
    \/ \E s \in Sources : WStart(s)
    \/ \E s \in Sources : WLoop(s)
    \/ \E s \in Sources : WSearch(s, {ScenarioPage(s, page[s])})
    \/ \E s \in Sources : WPutAll(s)
    \/ MWhile
    \/ MScan
    \/ MQueueGet
    \/ MQueueEmpty
    \/ MCancel
    \/ MReturn

SpecScenario == ScenarioInit /\ [][NextScenario]_vars

(***************************************************************************)
(* _process_video_batch: the per-video pipeline of one slice.              *)
(***************************************************************************)
\* The longest slice and the size of the task pool (config "max_workers").
MaxSlice == 3
MaxWorkers == 2

\* The slices: videos of the two sources, numbered by their place.
RECURSIVE SlicesOf(_)
SlicesOf(n) ==
    IF n = 0 THEN {<<>>}
    ELSE {Append(pre, Video(s, n, d)) :
            pre \in SlicesOf(n - 1), s \in TwoSources,
            d \in {ShortDuration, EstimatedVideoLength}}

Slices == UNION {SlicesOf(n) : n \in 1..MaxSlice}

Items == 1..Len(slice)

\* What the upload capability may do: return a dict with "success", return
\* the (accepted, location) pair of CloudStorageUploader, or raise.
UploaderOutcomes ==
    {"dict_accepted", "dict_rejected", "pair_accepted", "pair_rejected", "raise"}

Accepted(u) == u \in {"dict_accepted", "pair_accepted"}

\* _upload_video: the result dict it returns.  "success" is set to False
\* when the dict is created and no path assigns it again.
UploadVideo(u) ==
    IF u = "dict_accepted"
    THEN [success |-> FALSE, uploaded |-> TRUE, failed |-> FALSE]
    ELSE [success |-> FALSE, uploaded |-> FALSE, failed |-> TRUE]

nonpipe == <<mgrvars, taskvars, batchvars>>

PipeBusy == Cardinality({i \in Items : dl[i] = "running"})
            + Cardinality({i \in Items : val[i] = "running"})

\* The call: one download task per video is submitted.
ProcessVideoBatch(vs) ==
    /\ ppc = "idle"
    /\ slice' = vs
    /\ dl' = [i \in 1..Len(vs) |-> "queued"]
    /\ val' = [i \in 1..Len(vs) |-> "none"]
    /\ up' = [i \in 1..Len(vs) |-> "none"]
    /\ file' = [i \in 1..Len(vs) |-> "none"]
    /\ pool_queue' = [i \in 1..Len(vs) |-> <<"dl", i>>]
    /\ taken' = {}
    /\ results' = [processed |-> 0, validated |-> 0, uploaded |-> 0, failed |-> 0,
                   seconds |-> 0]
    /\ ppc' = "downloads"
    /\ UNCHANGED <<output_destination, total_video_seconds>>
    /\ UNCHANGED nonpipe

\* A free worker thread of the pool takes the next task of the work queue.
PoolStart ==
    /\ pool_queue # <<>>
    /\ PipeBusy < MaxWorkers
    /\ LET task == Head(pool_queue)
       IN  IF task[1] = "dl"
           THEN dl' = [dl EXCEPT ![task[2]] = "running"] /\ UNCHANGED val
           ELSE val' = [val EXCEPT ![task[2]] = "running"] /\ UNCHANGED dl
    /\ pool_queue' = Tail(pool_queue)
    /\ UNCHANGED <<output_destination, total_video_seconds, slice, ppc, up, taken, results,
                   file>>
    /\ UNCHANGED nonpipe

\* _download_video returns: the file is at its download path, or the
\* download failed (no URL, no scraper, download_video false or raising).
DownloadVideo(i, ok) ==
    /\ dl[i] = "running"
    /\ dl' = [dl EXCEPT ![i] = IF ok THEN "ok" ELSE "fail"]
    /\ file' = [file EXCEPT ![i] = IF ok THEN "download" ELSE "none"]
    /\ UNCHANGED <<output_destination, total_video_seconds, slice, ppc, pool_queue, val, up,
                   taken, results>>
    /\ UNCHANGED nonpipe

\* A loop that forgets to count a video that failed.
CountNothing(r) == r

\* Lines 498 and 529: results["failed"] += 1.
CountFailure(r) == [r EXCEPT !.failed = @ + 1]

\* A loop that submits the validation whatever the download returned.
DownloadIgnored(outcome) == TRUE

\* Line 493: if download_result["success"].
DownloadSucceeded(outcome) == outcome = "ok"

\* for future in as_completed(download_futures): one finished download.
TakeDownload(i) ==
    /\ ppc = "downloads"
    /\ dl[i] \in {"ok", "fail"}
    /\ <<"dl", i>> \notin taken
    /\ taken' = taken \cup {<<"dl", i>>}
    /\ IF DownloadSucceeded(dl[i])
       THEN /\ results' = [results EXCEPT !.processed = @ + 1]
            /\ val' = [val EXCEPT ![i] = "queued"]
            /\ pool_queue' = Append(pool_queue, <<"val", i>>)
       ELSE /\ results' = CountFailure(results)
            /\ UNCHANGED <<val, pool_queue>>
    /\ ppc' = IF \A j \in Items : <<"dl", j>> \in taken'
              THEN (IF results'.processed = 0 THEN "done" ELSE "validations")
              ELSE "downloads"
    /\ UNCHANGED <<output_destination, total_video_seconds, slice, dl, up, file>>
    /\ UNCHANGED nonpipe

\* _validate_video returns: accepted, rejected (the file is moved to the
\* failed directory) or the validation raised.
ValidateVideo(i, outcome) ==
    /\ val[i] = "running"
    /\ val' = [val EXCEPT ![i] = IF outcome = "accept" THEN "ok" ELSE "fail"]
    /\ file' = [file EXCEPT ![i] = IF outcome = "reject" THEN "failed" ELSE @]
    /\ UNCHANGED <<output_destination, total_video_seconds, slice, ppc, pool_queue, dl, up,
                   taken, results>>
    /\ UNCHANGED nonpipe

\* An increment of the running total that starts from a value read before
\* the other increments of the slice were stored.
AddDurationStale(total, d) == d

\* Line 508: self.total_video_seconds += video.get("duration", 0), executed
\* by the one thread that runs the as_completed loop.
AddDuration(total, d) == total + d

\* for future in as_completed(validation_futures): one finished validation,
\* with the upload or the local move of an accepted video.
TakeValidation(i, u) ==
    /\ ppc = "validations"
    /\ val[i] \in {"ok", "fail"}
    /\ <<"val", i>> \notin taken
    /\ taken' = taken \cup {<<"val", i>>}
    /\ IF val[i] = "ok"
       THEN /\ total_video_seconds' = AddDuration(total_video_seconds, slice[i].dur)
            /\ up' = [up EXCEPT ![i] = u]
            /\ IF output_destination = "cloud"
               THEN /\ u \in UploaderOutcomes
                    /\ results' = [results EXCEPT
                           !.validated = @ + 1,
                           !.seconds = @ + slice[i].dur,
                           !.uploaded = IF UploadVideo(u).success THEN @ + 1 ELSE @,
                           !.failed = IF UploadVideo(u).success THEN @ ELSE @ + 1]
                    /\ file' = [file EXCEPT
                           ![i] = IF UploadVideo(u).uploaded THEN "processed" ELSE "deleted"]
               ELSE /\ u \in {"moved", "move_failed"}
                    /\ results' = [results EXCEPT
                           !.validated = @ + 1,
                           !.seconds = @ + slice[i].dur,
                           !.uploaded = IF u = "moved" THEN @ + 1 ELSE @,
                           !.failed = IF u = "moved" THEN @ ELSE @ + 1]
                    /\ file' = [file EXCEPT ![i] = IF u = "moved" THEN "processed" ELSE @]
       ELSE /\ u = "none"
            /\ results' = CountFailure(results)
            /\ file' = [file EXCEPT ![i] = IF @ = "download" THEN "deleted" ELSE @]
            /\ UNCHANGED <<total_video_seconds, up>>
    /\ ppc' = IF \A j \in Items : val[j] # "none" => <<"val", j>> \in taken'
              THEN "done" ELSE "validations"
    /\ UNCHANGED <<output_destination, slice, pool_queue, dl, val>>
    /\ UNCHANGED nonpipe

\* Line 423: after the slice process_batch calls _cleanup_temp_files
\* (lines 169-192), which removes every file of the temp directory and of
\* the failed directory.
CleanupTempFiles ==
    /\ ppc = "done"
    /\ ppc' = "cleaned"
    /\ file' = [i \in DOMAIN file |-> IF file[i] = "failed" THEN "deleted" ELSE file[i]]
    /\ UNCHANGED <<output_destination, total_video_seconds, slice, pool_queue, dl, val, up,
                   taken, results>>
    /\ UNCHANGED nonpipe

\* A processor configured for local or for cloud output.
PipelineInit ==
    /\ MgrInit
    /\ TaskInit
    /\ output_destination \in {"local", "cloud"}
    /\ total_video_seconds = 0
    /\ slice = <<>>
    /\ ppc = "idle"
    /\ pool_queue = <<>>
    /\ dl = <<>>
    /\ val = <<>>
    /\ up = <<>>
    /\ taken = {}
    /\ results = [processed |-> 0, validated |-> 0, uploaded |-> 0, failed |-> 0, seconds |-> 0]
    /\ file = <<>>
    /\ BatchInit
    /\ entry = Snapshot

NextPipeline ==
    \/ \E vs \in Slices : ProcessVideoBatch(vs)
    \/ PoolStart
    \/ \E i \in Items, ok \in BOOLEAN : DownloadVideo(i, ok)
    \/ \E i \in Items : TakeDownload(i)
    \/ \E i \in Items, o \in {"accept", "reject", "raise"} : ValidateVideo(i, o)
    \/ \E i \in Items, u \in UploaderOutcomes \cup {"moved", "move_failed", "none"} :
            TakeValidation(i, u)
    \/ CleanupTempFiles

SpecPipeline == PipelineInit /\ [][NextPipeline]_vars

\* C6: in a slice of N videos of which exactly one download failed and every
\* other download, validation and upload succeeded, the pipeline reports
\* N-1 validated, N-1 uploaded and 1 failed.
C6_OneFailureIsolated ==
    ( /\ ppc = "done"
      /\ Cardinality({i \in Items : dl[i] = "fail"}) = 1
      /\ \A i \in Items : dl[i] = "ok" =>
            val[i] = "ok" /\ (Accepted(up[i]) \/ up[i] = "moved") )
    => /\ results.validated = Len(slice) - 1
       /\ results.uploaded = Len(slice) - 1
       /\ results.failed = 1

\* C13: in cloud mode, when a slice is done, every validated video whose
\* upload was accepted by the upload capability (by one that returns a dict
\* or by CloudStorageUploader, which returns a pair) is counted as uploaded
\* and not as failed.
C13_AcceptedUploadCounted ==
    (ppc = "done" /\ output_destination = "cloud") =>
        LET accepted == {i \in Items : val[i] = "ok" /\ Accepted(up[i])}
        IN  /\ results.uploaded >= Cardinality(accepted)
            /\ results.failed <= Len(slice) - Cardinality(accepted)

\* The videos of the slice that passed validation, in slice order.
ValidatedVideos == SelectSeq(slice, LAMBDA v : val[v.id] = "ok")

\* C21: within one call, when the tasks of a slice have joined,
\* total_video_seconds has grown by exactly the sum of the durations of the
\* slice's validated videos; no increment is lost to a concurrent
\* read-modify-write (the pool tasks never write the total).
C21_NoLostIncrement ==
    /\ ppc \in {"downloads", "validations", "done"}
          => total_video_seconds = results.seconds
    /\ ppc = "done" => total_video_seconds = SumDur(ValidatedVideos)

\* A slice is done in which two videos passed validation.
C21_Witness ==
    /\ ppc = "done"
    /\ Len(ValidatedVideos) >= 2
    /\ total_video_seconds = ShortDuration + EstimatedVideoLength

\* C22: at no time are two calls on the same scraper instance executing
\* in different tasks: two download tasks of a slice that are running at
\* the same time belong to videos of different sources.
C22_OneCallPerScraper ==
    \A i, j \in Items :
        (i # j /\ dl[i] = "running" /\ dl[j] = "running")
            => slice[i].src # slice[j].src

\* C28: a file rejected by validation is moved into the failed area and
\* stays there, after its slice has been processed and when process_batch
\* returns, and no upload is attempted for it.
C28_RejectedFileRetained ==
    /\ [](\A i \in DOMAIN file : file[i] = "failed" => up[i] = "none")
    /\ [][\A i \in DOMAIN file :
             file[i] = "failed" => (i \in DOMAIN file' /\ file'[i] = "failed")]_vars

\* C29: the stages are ordered per video: a validation is submitted for a
\* video only after its download has succeeded, and the upload or the local
\* move is attempted only after its validation has succeeded; a failed
\* download has neither a validation nor an upload, a failed validation has
\* no upload.
C29_StagesOrdered ==
    /\ [](\A i \in Items :
             /\ val[i] # "none" => dl[i] = "ok"
             /\ up[i] # "none" => (dl[i] = "ok" /\ val[i] = "ok")
             /\ dl[i] = "fail" => (val[i] = "none" /\ up[i] = "none")
             /\ val[i] = "fail" => up[i] = "none")
    /\ [][\A i \in Items :
             /\ (i \in DOMAIN val' /\ val[i] = "none" /\ val'[i] # "none")
                    => (dl[i] = "ok" /\ <<"dl", i>> \in taken')
             /\ (i \in DOMAIN up' /\ up[i] = "none" /\ up'[i] # "none")
                    => (val[i] = "ok" /\ <<"val", i>> \in taken')]_vars

C29_Witness ==
    /\ ppc = "done"
    /\ \E i, j, k \in Items :
          /\ dl[i] = "fail" /\ <<"dl", i>> \in taken /\ val[i] = "none" /\ up[i] = "none"
          /\ dl[j] = "ok" /\ val[j] = "fail" /\ <<"val", j>> \in taken /\ up[j] = "none"
          /\ dl[k] = "ok" /\ val[k] = "ok" /\ up[k] # "none"

\* C30: for every slice of N videos and every combination of download,
\* validation and upload outcomes, the counts _process_video_batch returns
\* satisfy uploaded + failed = N and uploaded <= validated <= processed <= N.
C30_CountsPartition ==
    /\ results.uploaded <= results.validated
    /\ results.validated <= results.processed
    /\ results.processed <= Len(slice)
    /\ results.uploaded + results.failed <= Len(slice)
    /\ ppc \in {"done", "cleaned"} =>
          /\ results.uploaded + results.failed = Len(slice)
          /\ results.processed = Cardinality({i \in Items : dl[i] = "ok"})
          /\ results.validated = Cardinality({i \in Items : val[i] = "ok"})
          /\ results.uploaded = Cardinality({i \in Items : up[i] = "moved"})

C30_Witness ==
    /\ ppc = "done"
    /\ Len(slice) = 3
    /\ results.processed = 2
    /\ results.validated = 1
    /\ results.uploaded = 1
    /\ results.failed = 2

(***************************************************************************)
(* Properties of run_scrapers_until_target.                                *)
(***************************************************************************)
\* The records the scraper tasks of the call discovered.
DiscoveredSeq == videos["s1"] \o videos["s2"] \o videos["s3"]
DiscoveredSet == Range(DiscoveredSeq)

\* The tasks of the call that were submitted.
Submitted == Range(queries) \cap scrapers

\* C1: when run_scrapers_until_target returns, the total duration of the
\* returned records is at most target_hours * 3600.
C1_DurationBound ==
    mpc = "returned" => SumDur(returned) <= target_hours

\* A call returned a non-empty list from which the trimming pass dropped
\* records.
C1_Witness ==
    /\ mpc = "returned"
    /\ returned # <<>>
    /\ Len(returned) < Len(all_videos)
    /\ SumDur(all_videos) > target_hours

\* The case of C2: the target is 3.6 s and every record the sources returned
\* lasts 20 s, and there is one.
TinyTargetCase ==
    /\ mpc = "returned"
    /\ target_hours = TinyTarget
    /\ all_videos # <<>>
    /\ \A i \in 1..Len(all_videos) : all_videos[i].dur = EstimatedVideoLength

\* C2 as stated: with a target of 3.6 s and sources returning 20 s videos,
\* the call returns exactly one record, the first one discovered.
C2_ReturnsFirstRecord ==
    TinyTargetCase => Len(returned) = 1 /\ returned[1] = all_videos[1]

\* C2 amended: with a target of 3.6 s and sources returning 20 s videos, the
\* call returns no record, since the first record already overshoots.
C2_ReturnsNothing ==
    TinyTargetCase => returned = <<>>

\* A call with the 3.6 s target collected records of both sources.
C2_Witness ==
    /\ TinyTargetCase
    /\ \E i, j \in 1..Len(all_videos) : all_videos[i].src # all_videos[j].src

\* C3: in the scenario of three sources the call returns exactly the 15
\* discovered records, 300 s in total.
C3_ReturnsFifteen ==
    mpc = "returned" =>
        /\ Len(returned) = Cardinality(ScenarioRecords)
        /\ Range(returned) = ScenarioRecords
        /\ SumDur(returned) = ScenarioTarget

\* C4: if every task ended by itself (exhausted, at its maximum or out of
\* error budget) and the records they discovered last less than the target
\* in total, every discovered record is returned.
C4_ReturnsEverything ==
    ( /\ mpc = "returned"
      /\ \A s \in Submitted : end_reason[s] \in {"max", "empty", "errors"}
      /\ SumDur(DiscoveredSeq) < target_hours )
    => DiscoveredSet \subseteq Range(returned)

\* C5: a task whose every search raised and that ended on its error budget
\* has called search_videos exactly 3 times.
C5_ThreeInvocations ==
    \A s \in Sources :
        (wpc[s] = "done" /\ end_reason[s] = "errors" /\ raises[s] = searches[s])
        => searches[s] = ErrorBudget

\* C16: the call collects and returns each record at most once, and adds
\* its duration to the running total at most once.
C16_CollectedOnce ==
    mpc = "returned" =>
        /\ Cardinality(Range(all_videos)) = Len(all_videos)
        /\ Cardinality(Range(returned)) = Len(returned)
        /\ total_seconds <= SumDur(DiscoveredSeq)

(***************************************************************************)
(* The acceptance filter of process_batch.  A text is the sequence of its  *)
(* characters.                                                             *)
(***************************************************************************)
UpperCase ==
    <<"A", "B", "C", "D", "E", "F", "G", "H", "I", "J", "K", "L", "M",
      "N", "O", "P", "Q", "R", "S", "T", "U", "V", "W", "X", "Y", "Z">>
LowerCase ==
    <<"a", "b", "c", "d", "e", "f", "g", "h", "i", "j", "k", "l", "m",
      "n", "o", "p", "q", "r", "s", "t", "u", "v", "w", "x", "y", "z">>

\* str.lower()
LowerChar(c) ==
    IF \E i \in 1..Len(UpperCase) : UpperCase[i] = c
    THEN LowerCase[CHOOSE i \in 1..Len(UpperCase) : UpperCase[i] = c]
    ELSE c

Lower(str) == [i \in 1..Len(str) |-> LowerChar(str[i])]

\* str.endswith(suffix)
EndsWith(str, suffix) ==
    /\ Len(str) >= Len(suffix)
    /\ SubSeq(str, Len(str) - Len(suffix) + 1, Len(str)) = suffix

Coverr == <<"c", "o", "v", "e", "r", "r">>
Wikimedia == <<"w", "i", "k", "i", "m", "e", "d", "i", "a">>
TrustedSources == {Coverr, Wikimedia}
Mp4 == <<".", "m", "p", "4">>

\* A video record as process_batch reads it; a missing "source" or "url"
\* reads as the empty text.
BatchVideo(source, url, n, d) == [source |-> source, url |-> url, id |-> n, dur |-> d]

\* A filter that asks the extension of every record, trusted source or not.
AcceptsMp4Only(v) == EndsWith(Lower(v.url), Mp4)

\* The body of "for v in videos": whether v is appended.
Accepts(v) ==
    LET src == Lower(v.source)
        url == Lower(v.url)
    IN  IF src \in TrustedSources THEN TRUE ELSE EndsWith(url, Mp4)

AcceptanceFilter(vs) == SelectSeq(vs, Accepts)

\* The sources and URLs of the records the filter is applied to.
SampleSources ==
    { Coverr,
      <<"C", "o", "v", "e", "r", "r">>,
      <<"W", "I", "K", "I", "M", "E", "D", "I", "A">>,
      <<"p", "e", "x", "e", "l", "s">>,
      <<"c", "o", "v", "e", "r">>,
      <<>> }
SampleUrls ==
    { <<"a", ".", "m", "p", "4">>,
      <<"a", ".", "M", "P", "4">>,
      <<"a", ".", "w", "e", "b", "m">>,
      <<"a", ".", "m", "p", "4", "?", "x">>,
      <<"m", "p", "4">>,
      <<>> }

MaxScraped == 2

RECURSIVE ScrapedLists(_)
ScrapedLists(n) ==
    IF n = 0 THEN {<<>>}
    ELSE {Append(pre, BatchVideo(src, url, n, EstimatedVideoLength)) :
            pre \in ScrapedLists(n - 1), src \in SampleSources, url \in SampleUrls}

\* The scraping round handed its list to the filter.
FilterInit ==
    /\ MgrInit
    /\ TaskInit
    /\ PipeInit
    /\ validation_pipeline = TRUE
    /\ cloud_uploader = FALSE
    /\ batch_size = PyInt(ConfigBatchSize)
    /\ bp_target_hours = PyInt(HourTarget)
    /\ disk_space_threshold = ConfigThreshold
    /\ bp_shutdown_flag = FALSE
    /\ state = DefaultState
    /\ state_file = [exists |-> FALSE, state |-> DefaultState]
    /\ saves = 0
    /\ total_videos = NoCounts
    /\ now = 1
    /\ pb_pc = "scraped"
    /\ bcalls = 1
    /\ frame = NoFrame
    /\ batch_id = NoBatch
    /\ pb_result = NoResult
    /\ scraped \in UNION {ScrapedLists(n) : n \in 0..MaxScraped}
    /\ filtered_videos = <<>>
    /\ start_idx = 0
    /\ counts = NoCounts
    /\ sent = <<>>
    /\ callers = [t \in MainThreads |-> IdleCaller]
    /\ total_videos_found = 0
    /\ rounds = 1
    /\ via = "direct"
    /\ resumed = NoBatchState
    /\ entry = Snapshot

\* Lines 349-362: the filter and the count of the records it kept.
FilterVideos ==
    /\ pb_pc = "scraped"
    /\ filtered_videos' = AcceptanceFilter(scraped)
    /\ total_videos_found' = total_videos_found + Len(AcceptanceFilter(scraped))
    /\ pb_pc' = "filtered"
    /\ UNCHANGED <<validation_pipeline, cloud_uploader, batch_size, bp_target_hours,
                   disk_space_threshold, bp_shutdown_flag, state, state_file, saves,
                   total_videos, now, bcalls, frame, batch_id, pb_result, scraped,
                   start_idx, counts, sent, callers, rounds, via, resumed, entry>>
    /\ UNCHANGED <<mgrvars, taskvars, pipevars>>

NextFilter == FilterVideos

SpecFilter == FilterInit /\ [][NextFilter]_vars

\* What C8 calls a trusted source and the expected media extension: the
\* names and the extension, whatever the case of the letters.
FromTrustedSource(v) == \E t \in TrustedSources : Lower(v.source) = t
HasMp4Extension(v) ==
    \E k \in 1..Len(v.url) : Lower(SubSeq(v.url, k, Len(v.url))) = Mp4

\* C8: the filter keeps a record exactly when its source is coverr or
\* wikimedia or its URL ends with .mp4, and it keeps the records in order.
C8_AcceptanceFilter ==
    pb_pc = "filtered" =>
        /\ \A i \in 1..Len(scraped) :
              (scraped[i] \in Range(filtered_videos))
                  <=> (FromTrustedSource(scraped[i]) \/ HasMp4Extension(scraped[i]))
        /\ Range(filtered_videos) \subseteq Range(scraped)
        /\ \A i, j \in 1..Len(filtered_videos) :
              i < j => filtered_videos[i].id < filtered_videos[j].id

\* The filter kept a trusted-source record whose URL does not match and
\* dropped a record of another source whose URL does not match.
C8_Witness ==
    /\ pb_pc = "filtered"
    /\ \E v \in Range(filtered_videos) : FromTrustedSource(v) /\ ~HasMp4Extension(v)
    /\ \E v \in Range(scraped) :
          ~FromTrustedSource(v) /\ ~HasMp4Extension(v) /\ v \notin Range(filtered_videos)

(***************************************************************************)
(* process_batch and resume_batch.  The processor registers every scraper  *)
(* with its manager too, so self.scrapers of both hold the same names.     *)
(***************************************************************************)
pipetaskvars == <<slice, ppc, pool_queue, dl, val, up, taken, results, file>>
mgrrest == <<scrapers, registrations, ratevars, scraper_status, results_queue, max_videos_per_scraper, mpc, calls,
             queries, futures, all_videos, total_seconds, returned>>

PutBatch(batches, id, b) ==
    [i \in (DOMAIN batches) \cup {id} |-> IF i = id THEN b ELSE batches[i]]

\* _save_state: the totals are copied into self.state, which is written.
SaveState(st, totals, seconds) ==
    [st EXCEPT !.totals = totals, !.total_video_seconds = seconds]

\* Fail-fast checks without the check of the cloud uploader.
FailFastErrorNoUploader(pipeline_set, destination, uploader_set, valid_sources) ==
    IF ~pipeline_set THEN "Validation pipeline not set"
    ELSE IF valid_sources = <<>> THEN "No valid sources provided"
    ELSE ""

\* The fail-fast checks of lines 280-289: the error, or "" when they pass.
FailFastError(pipeline_set, destination, uploader_set, valid_sources) ==
    IF ~pipeline_set THEN "Validation pipeline not set"
    ELSE IF destination = "cloud" /\ ~uploader_set
         THEN "Cloud uploader not set for cloud output destination"
    ELSE IF valid_sources = <<>> THEN "No valid sources provided"
    ELSE ""

ErrorResult(err) ==
    [success |-> FALSE, error |-> err, batch_id |-> NoBatch, videos_found |-> 0,
     videos_downloaded |-> 0, videos_validated |-> 0, videos_uploaded |-> 0,
     videos_failed |-> 0, video_seconds |-> 0]

\* Lines 266-327 of process_batch, with the parameters bound as in f.
EnterProcessBatch(f, who, b) ==
    LET new_threshold == IF f.config_override.k = "dict"
                            /\ f.config_override.s = "disk_space_threshold"
                         THEN f.config_override.n ELSE disk_space_threshold
        new_batch_size == IF f.batch_size.k # "none" THEN f.batch_size ELSE batch_size
        new_target == IF f.target_hours.k # "none" THEN f.target_hours ELSE bp_target_hours
        new_destination == IF f.output_destination.k # "none"
                           THEN f.output_destination.s ELSE output_destination
        valid_sources == SelectSeq(f.sources.d, LAMBDA s : s \in scrapers)
        err == FailFastError(validation_pipeline, new_destination, cloud_uploader,
                             valid_sources)
        batch_state == [id |-> now, queries |-> valid_sources,
                        batch_size |-> new_batch_size, target_hours |-> new_target,
                        output_destination |-> new_destination, start_time |-> now,
                        end_time |-> NoTime, videos_found |-> 0, videos_downloaded |-> 0,
                        videos_validated |-> 0, videos_uploaded |-> 0,
                        videos_failed |-> 0, video_seconds |-> 0, status |-> "running",
                        error |-> ""]
        saved == SaveState([state EXCEPT !.batches = PutBatch(@, now, batch_state),
                                         !.last_batch_id = now],
                           total_videos, total_video_seconds)
    IN  /\ entry' = Snapshot
        /\ frame' = f
        /\ via' = who
        /\ resumed' = b
        /\ bcalls' = bcalls + 1
        /\ disk_space_threshold' = new_threshold
        /\ batch_size' = new_batch_size
        /\ bp_target_hours' = new_target
        /\ output_destination' = new_destination
        /\ scraped' = <<>>
        /\ filtered_videos' = <<>>
        /\ start_idx' = 0
        /\ counts' = NoCounts
        /\ sent' = <<>>
        /\ UNCHANGED callers
        /\ total_videos_found' = 0
        /\ IF err # ""
           THEN /\ pb_result' = ErrorResult(err)
                /\ pb_pc' = "returned"
                /\ batch_id' = NoBatch
                /\ UNCHANGED <<state, state_file, saves, total_videos,
                               total_video_seconds, bp_shutdown_flag>>
           ELSE /\ batch_id' = now
                /\ state' = saved
                /\ state_file' = [exists |-> TRUE, state |-> saved]
                /\ saves' = saves + 1
                /\ total_videos' = NoCounts
                /\ total_video_seconds' = 0
                /\ bp_shutdown_flag' = FALSE
                /\ pb_result' = NoResult
                /\ pb_pc' = "disk"
        /\ UNCHANGED <<validation_pipeline, cloud_uploader, now, rounds>>
        /\ UNCHANGED pipetaskvars
        /\ UNCHANGED <<mgrvars, taskvars>>

\* A caller's process_batch(sources, batch_size=..., target_hours=...,
\* output_destination=..., config_override=...), as main calls it.
ProcessBatch(sources, bs, th, dest, override) ==
    /\ pb_pc = "idle"
    /\ bcalls < MaxBatchCalls
    /\ EnterProcessBatch([sources |-> PyDict(sources), query |-> None, batch_size |-> bs,
                          target_hours |-> th, output_destination |-> dest,
                          config_override |-> override],
                         "direct", NoBatchState)

\* The positional call of resume_batch, lines 731-736: process_batch takes
\* (sources, query, batch_size, target_hours, output_destination,
\* config_override) in this order.
ResumeFrame(b) ==
    [sources |-> PyDict(b.queries), query |-> b.batch_size, batch_size |-> b.target_hours,
     target_hours |-> PyStr(b.output_destination), output_destination |-> None,
     config_override |-> None]

ResumeBatch(id) ==
    /\ pb_pc = "idle"
    /\ bcalls < MaxBatchCalls
    /\ IF id \notin DOMAIN state.batches \/ state.batches[id].status = "completed"
       THEN /\ pb_result' = ErrorResult(IF id \notin DOMAIN state.batches
                                        THEN "Batch not found" ELSE "already completed")
            /\ pb_pc' = "returned"
            /\ via' = "resume_refused"
            /\ bcalls' = bcalls + 1
            /\ entry' = Snapshot
            /\ UNCHANGED <<validation_pipeline, cloud_uploader, batch_size, bp_target_hours,
                           disk_space_threshold, bp_shutdown_flag, state, state_file, saves,
                           total_videos, now, frame, batch_id, scraped, filtered_videos,
                           start_idx, counts, sent, callers, total_videos_found, rounds, resumed>>
            /\ UNCHANGED <<mgrvars, taskvars, pipevars>>
       ELSE EnterProcessBatch(ResumeFrame(state.batches[id]), "resume", state.batches[id])

\* An except clause that marks the BatchState failed in memory only.
FailBatchUnsaved(err) ==
    /\ state' = [state EXCEPT !.batches[batch_id] =
                    [@ EXCEPT !.status = "failed", !.error = err, !.end_time = now]]
    /\ UNCHANGED <<state_file, saves>>
    /\ pb_result' = ErrorResult(err)
    /\ pb_pc' = "returned"

\* The except clause of lines 449-459: the BatchState is marked failed and
\* flushed, and the error is returned.
FailBatch(err) ==
    LET saved == SaveState([state EXCEPT !.batches[batch_id] =
                                [@ EXCEPT !.status = "failed", !.error = err,
                                          !.end_time = now]],
                           total_videos, total_video_seconds)
    IN  /\ state' = saved
        /\ state_file' = [exists |-> TRUE, state |-> saved]
        /\ saves' = saves + 1
        /\ pb_result' = ErrorResult(err)
        /\ pb_pc' = "returned"

\* Lines 427-447: the BatchState is marked completed and flushed.
CompleteBatch(found) ==
    LET done == [state.batches[batch_id] EXCEPT
                    !.videos_found = found, !.end_time = now, !.status = "completed",
                    !.video_seconds = total_video_seconds]
        saved == SaveState([state EXCEPT !.batches[batch_id] = done],
                           total_videos, total_video_seconds)
    IN  /\ state' = saved
        /\ state_file' = [exists |-> TRUE, state |-> saved]
        /\ saves' = saves + 1
        /\ pb_result' = [success |-> TRUE, error |-> "", batch_id |-> batch_id,
                         videos_found |-> found,
                         videos_downloaded |-> done.videos_downloaded,
                         videos_validated |-> done.videos_validated,
                         videos_uploaded |-> done.videos_uploaded,
                         videos_failed |-> done.videos_failed,
                         video_seconds |-> total_video_seconds]
        /\ pb_pc' = "returned"

\* Lines 329-344: the disk check after the BatchState was created, and
\* expected_seconds = self.target_hours * 3600, which raises for None.
EnsureDiskSpace(enough) ==
    /\ pb_pc = "disk"
    /\ IF ~enough THEN FailBatch("Insufficient disk space")
       ELSE IF bp_target_hours.k \in {"none", "dict"} THEN FailBatch("TypeError")
       ELSE /\ pb_pc' = "while"
            /\ UNCHANGED <<state, state_file, saves, pb_result>>
    /\ UNCHANGED <<validation_pipeline, cloud_uploader, batch_size, bp_target_hours,
                   disk_space_threshold, bp_shutdown_flag, total_videos, now, bcalls, frame,
                   batch_id, scraped, filtered_videos, start_idx, counts, sent, callers,
                   total_videos_found, rounds, via, resumed, entry>>
    /\ UNCHANGED <<mgrvars, taskvars, pipevars>>

\* Line 345 with a target that is not a number: comparing the total with
\* a text raises TypeError.
WhileRaises ==
    /\ pb_pc = "while"
    /\ ~IsNumber(bp_target_hours)
    /\ FailBatch("TypeError")
    /\ UNCHANGED <<validation_pipeline, cloud_uploader, batch_size, bp_target_hours,
                   disk_space_threshold, bp_shutdown_flag, total_videos, now, bcalls, frame,
                   batch_id, scraped, filtered_videos, start_idx, counts, sent, callers,
                   total_videos_found, rounds, via, resumed, entry>>
    /\ UNCHANGED <<mgrvars, taskvars, pipevars>>

\* Line 345: the loop condition.
MoreWanted ==
    /\ total_video_seconds < bp_target_hours.n
    /\ ~bp_shutdown_flag

\* The loop condition is false: the call completes.
WhileExit ==
    /\ pb_pc = "while"
    /\ IsNumber(bp_target_hours)
    /\ ~MoreWanted
    /\ CompleteBatch(total_videos_found)
    /\ UNCHANGED <<validation_pipeline, cloud_uploader, batch_size, bp_target_hours,
                   disk_space_threshold, bp_shutdown_flag, total_videos, now, bcalls, frame,
                   batch_id, scraped, filtered_videos, start_idx, counts, sent, callers,
                   total_videos_found, rounds, via, resumed, entry>>
    /\ UNCHANGED <<mgrvars, taskvars, pipevars>>

\* The counters of a call are kept up to MaxCount and stay there; the
\* calls explored through MaxRounds rounds never reach it.
MaxCount == 8
Capped(n) == IF n > MaxCount THEN MaxCount ELSE n

\* Lines 346-367: one scraping round.  run_scrapers_until_target is taken
\* by what it does to the manager and by the list it returns: it stores
\* the target, its tasks search only while the manager's flag is clear, the
\* list is trimmed to the target, and the flag is set if the polling loop
\* reached the target.
ScrapingRound(vs, reached) ==
    /\ pb_pc = "while"
    /\ IsNumber(bp_target_hours)
    /\ MoreWanted
    /\ shutdown_flag => vs = <<>>
    /\ SumDur(vs) <= bp_target_hours.n
    /\ rounds' = IF rounds < MaxRounds THEN rounds + 1 ELSE rounds
    /\ target_hours' = bp_target_hours.n
    /\ shutdown_flag' = (shutdown_flag \/ reached)
    /\ scraped' = vs
    /\ filtered_videos' = AcceptanceFilter(vs)
    /\ total_videos_found' = Capped(total_videos_found + Len(AcceptanceFilter(vs)))
    /\ start_idx' = 0
    /\ IF AcceptanceFilter(vs) = <<>>
       THEN CompleteBatch(total_videos_found)
       ELSE IF batch_size.k # "int" THEN FailBatch("TypeError")
       ELSE /\ pb_pc' = "slice"
            /\ UNCHANGED <<state, state_file, saves, pb_result>>
    /\ UNCHANGED <<validation_pipeline, cloud_uploader, batch_size, bp_target_hours,
                   disk_space_threshold, bp_shutdown_flag, total_videos, now, bcalls, frame,
                   batch_id, counts, sent, callers, via, resumed, entry>>
    /\ UNCHANGED mgrrest
    /\ UNCHANGED <<taskvars, pipevars>>

\* What happened to one video of a slice in _process_video_batch.
VideoOutcomes == {"download_failed", "rejected", "accepted"}

\* Line 391: a video is assumed to last 60 s.
AssumedVideoSeconds == 600

\* The counts _process_video_batch returns for a slice whose videos ended
\* as in outs, the upload or the local move of the accepted ones ending as u.
SliceCounts(vs, outs, u) ==
    LET stored == IF output_destination = "cloud" THEN UploadVideo(u).success
                  ELSE u = "moved"
        n_accepted == Cardinality({i \in 1..Len(vs) : outs[i] = "accepted"})
        n_lost == Cardinality({i \in 1..Len(vs) : outs[i] # "accepted"})
    IN  [processed |-> Cardinality({i \in 1..Len(vs) : outs[i] # "download_failed"}),
         validated |-> n_accepted,
         uploaded |-> IF stored THEN n_accepted ELSE 0,
         failed |-> n_lost + (IF stored THEN 0 ELSE n_accepted),
         seconds |-> SumDur([i \in 1..Len(vs) |->
                                [dur |-> IF outs[i] = "accepted" THEN vs[i].dur ELSE 0]])]

\* Lines 367-425: one iteration of the slice loop.
ProcessSlice(outs, u, disk) ==
    /\ pb_pc = "slice"
    /\ LET size == batch_size.n
           end_idx == Min(start_idx + size, Len(filtered_videos))
           current_batch == SubSeq(filtered_videos, start_idx + 1, end_idx)
           bound == bp_target_hours.n + size * AssumedVideoSeconds
           trimmed == IF total_video_seconds + SumDur(current_batch) > bound
                      THEN TrimFrom(current_batch, total_video_seconds, bound)
                      ELSE current_batch
           r == SliceCounts(trimmed, outs, u)
           new_counts == [processed |-> Capped(counts.processed + r.processed),
                          validated |-> Capped(counts.validated + r.validated),
                          uploaded |-> Capped(counts.uploaded + r.uploaded),
                          failed |-> Capped(counts.failed + r.failed)]
           new_seconds == total_video_seconds + r.seconds
           saved == SaveState([state EXCEPT !.batches[batch_id] =
                                  [@ EXCEPT !.videos_downloaded = new_counts.processed,
                                            !.videos_validated = new_counts.validated,
                                            !.videos_uploaded = new_counts.uploaded,
                                            !.videos_failed = new_counts.failed,
                                            !.video_seconds = new_seconds]],
                              total_videos, new_seconds)
       IN  IF bp_shutdown_flag \/ disk = "insufficient" \/ trimmed = <<>>
           THEN /\ outs = <<>>
                /\ u = "none"
                /\ pb_pc' = "while"
                /\ UNCHANGED <<state, state_file, saves, counts, sent, callers, start_idx,
                               total_video_seconds>>
           ELSE /\ DOMAIN outs = 1..Len(trimmed)
                /\ IF output_destination = "cloud" THEN u \in UploaderOutcomes
                   ELSE u \in {"moved", "move_failed"}
                /\ counts' = new_counts
                /\ sent' = IF Len(sent \o trimmed) > MaxCount THEN sent ELSE sent \o trimmed
                /\ UNCHANGED callers
                /\ total_video_seconds' = new_seconds
                /\ state' = saved
                /\ state_file' = [exists |-> TRUE, state |-> saved]
                /\ saves' = Capped(saves + 1)
                /\ start_idx' = start_idx + size
                /\ pb_pc' = IF start_idx + size >= Len(filtered_videos)
                            THEN "while" ELSE "slice"
    /\ UNCHANGED <<validation_pipeline, cloud_uploader, batch_size, bp_target_hours,
                   disk_space_threshold, bp_shutdown_flag, total_videos, now, bcalls, frame,
                   batch_id, pb_result, scraped, filtered_videos, total_videos_found,
                   rounds, via, resumed, entry>>
    /\ UNCHANGED <<output_destination, pipetaskvars>>
    /\ UNCHANGED <<mgrvars, taskvars>>

\* run_scrapers_until_target or _process_video_batch raises.
CollaboratorRaises ==
    /\ \/ pb_pc = "slice"
       \/ pb_pc = "while" /\ IsNumber(bp_target_hours) /\ MoreWanted
    /\ FailBatch("collaborator error")
    /\ UNCHANGED <<validation_pipeline, cloud_uploader, batch_size, bp_target_hours,
                   disk_space_threshold, bp_shutdown_flag, total_videos, now, bcalls, frame,
                   batch_id, scraped, filtered_videos, start_idx, counts, sent, callers,
                   total_videos_found, rounds, via, resumed, entry>>
    /\ UNCHANGED <<mgrvars, taskvars, pipevars>>

\* The caller has the result of its call.
ReturnResult ==
    /\ pb_pc = "returned"
    /\ pb_pc' = "idle"
    /\ UNCHANGED <<validation_pipeline, cloud_uploader, batch_size, bp_target_hours,
                   disk_space_threshold, bp_shutdown_flag, state, state_file, saves,
                   total_videos, now, bcalls, frame, batch_id, pb_result, scraped,
                   filtered_videos, start_idx, counts, sent, callers, total_videos_found, rounds, via,
                   resumed, entry>>
    /\ UNCHANGED <<mgrvars, taskvars, pipevars>>

\* stop_batch, with the stop_all_scrapers it calls.
StopBatch ==
    /\ bp_shutdown_flag' = TRUE
    /\ shutdown_flag' = TRUE
    /\ UNCHANGED <<validation_pipeline, cloud_uploader, batch_size, bp_target_hours,
                   disk_space_threshold, state, state_file, saves, total_videos, now,
                   pb_pc, bcalls, frame, batch_id, pb_result, scraped, filtered_videos,
                   start_idx, counts, sent, callers, total_videos_found, rounds, via, resumed, entry>>
    /\ UNCHANGED <<target_hours, mgrrest>>
    /\ UNCHANGED <<taskvars, pipevars>>

SetValidationPipeline ==
    /\ validation_pipeline' = TRUE
    /\ UNCHANGED <<cloud_uploader, batch_size, bp_target_hours,
                   disk_space_threshold, bp_shutdown_flag, state, state_file, saves,
                   total_videos, now, pb_pc, bcalls, frame, batch_id, pb_result, scraped,
                   filtered_videos, start_idx, counts, sent, callers, total_videos_found, rounds, via,
                   resumed, entry>>
    /\ UNCHANGED <<mgrvars, taskvars, pipevars>>

SetCloudUploader ==
    /\ cloud_uploader' = TRUE
    /\ UNCHANGED <<validation_pipeline, batch_size, bp_target_hours,
                   disk_space_threshold, bp_shutdown_flag, state, state_file, saves,
                   total_videos, now, pb_pc, bcalls, frame, batch_id, pb_result, scraped,
                   filtered_videos, start_idx, counts, sent, callers, total_videos_found, rounds, via,
                   resumed, entry>>
    /\ UNCHANGED <<mgrvars, taskvars, pipevars>>

\* A second of the clock passes.
Tick ==
    /\ now < MaxTime
    /\ now' = now + 1
    /\ UNCHANGED <<validation_pipeline, cloud_uploader, batch_size, bp_target_hours,
                   disk_space_threshold, bp_shutdown_flag, state, state_file, saves,
                   total_videos, pb_pc, bcalls, frame, batch_id, pb_result, scraped,
                   filtered_videos, start_idx, counts, sent, callers, total_videos_found, rounds, via,
                   resumed, entry>>
    /\ UNCHANGED <<mgrvars, taskvars, pipevars>>

\* A processor as its constructor leaves it: the manager is built with the
\* processor's target and twice its batch size.
ProcessorInit ==
    /\ scrapers = {}
    /\ registrations = [s \in Sources |-> 0]
    /\ RateInit
    /\ scraper_status = [s \in Sources |-> InitialStatus]
    /\ shutdown_flag = FALSE
    /\ results_queue = <<>>
    /\ target_hours = HourTarget
    /\ max_videos_per_scraper = ConfigBatchSize * 2
    /\ mpc = "idle"
    /\ calls = 0
    /\ queries = <<>>
    /\ futures = <<>>
    /\ all_videos = <<>>
    /\ total_seconds = 0
    /\ returned = <<>>
    /\ TaskInit
    /\ PipeInit
    /\ BatchInit
    /\ entry = Snapshot

\* The lists a scraping round may return, and the arguments of the calls.
Pexels == <<"p", "e", "x", "e", "l", "s">>
RoundLists ==
    { <<>>,
      <<BatchVideo(Pexels, <<"a", ".", "m", "p", "4">>, 1, EstimatedVideoLength)>>,
      <<BatchVideo(Pexels, <<"a", ".", "m", "p", "4">>, 1, EstimatedVideoLength),
        BatchVideo(Coverr, <<>>, 2, ShortDuration)>> }
SliceOutcomes ==
    {<<>>} \cup {<<o>> : o \in VideoOutcomes}
    \cup {<<"accepted", "accepted">>, <<"download_failed", "accepted">>,
          <<"accepted", "rejected">>}
NoOverrides(sources) ==
    [sources |-> sources, batch_size |-> None, target_hours |-> None,
     output_destination |-> None, config_override |-> None]
CallArgs ==
    { NoOverrides(<<"s1">>),
      NoOverrides(<<"s3", "s1">>),
      [NoOverrides(<<"s1">>) EXCEPT !.target_hours = PyFloat(MidTarget)],
      [NoOverrides(<<"s1">>) EXCEPT !.output_destination = PyStr("cloud")],
      [sources |-> <<"s1">>, batch_size |-> PyInt(1), target_hours |-> PyFloat(MidTarget),
       output_destination |-> PyStr("cloud"),
       config_override |-> ThresholdOverride(OverrideThreshold)] }

NextBatch ==
    \/ bcalls = 0 /\ SetValidationPipeline
    \/ bcalls = 0 /\ SetCloudUploader
    \/ bcalls = 0 /\ "s1" \notin scrapers /\ RegisterScraper("s1")
    \/ \E a \in CallArgs :
            ProcessBatch(a.sources, a.batch_size, a.target_hours, a.output_destination,
                         a.config_override)
    \/ \E id \in 1..MaxTime : ResumeBatch(id)
    \/ \E enough \in BOOLEAN : EnsureDiskSpace(enough)
    \/ WhileRaises
    \/ WhileExit
    \/ \E vs \in RoundLists, reached \in BOOLEAN :
            rounds < MaxRounds /\ ScrapingRound(vs, reached)
    \/ \E outs \in SliceOutcomes, u \in UploaderOutcomes \cup {"moved", "move_failed", "none"},
          disk \in {"enough", "insufficient"} : ProcessSlice(outs, u, disk)
    \/ CollaboratorRaises
    \/ ReturnResult
    \/ pb_pc = "slice" /\ StopBatch
    \/ pb_pc = "idle" /\ bcalls > 0 /\ Tick

SpecBatch == ProcessorInit /\ [][NextBatch]_vars

(***************************************************************************)
(* Properties of process_batch and resume_batch.                           *)
(***************************************************************************)
\* C7: when resume_batch re-invokes process_batch for a BatchState, every
\* parameter of the call holds the original value of the same meaning
\* (queries, batch_size, target_hours, output_destination), and the
\* re-launched run is configured as the original run was.
C7_ResumeSameParameters ==
    via = "resume" =>
        /\ frame.sources = PyDict(resumed.queries)
        /\ frame.batch_size = resumed.batch_size
        /\ frame.target_hours = resumed.target_hours
        /\ frame.output_destination = PyStr(resumed.output_destination)
        /\ batch_size = resumed.batch_size
        /\ bp_target_hours = resumed.target_hours
        /\ output_destination = resumed.output_destination

\* The call in progress, or just returned, fails a fail-fast check.
FailFastCase ==
    /\ pb_pc # "idle"
    /\ via \in {"direct", "resume"}
    /\ \/ ~validation_pipeline
       \/ output_destination = "cloud" /\ ~cloud_uploader
       \/ Range(frame.sources.d) \cap scrapers = {}

\* C9: a process_batch that fails a fail-fast check returns
\* {success: false, error} and adds no BatchState, leaves last_batch_id
\* unchanged and does not write the state file.
C9_FailFastLeavesState ==
    FailFastCase =>
        /\ pb_pc = "returned"
        /\ ~pb_result.success
        /\ pb_result.error # ""
        /\ DOMAIN state.batches = DOMAIN entry.state.batches
        /\ state = entry.state
        /\ state_file = entry.state_file
        /\ saves = entry.saves

\* A call asking for cloud output without an uploader returned its error
\* when the state already held the BatchState of an earlier call.
C9_Witness ==
    /\ FailFastCase
    /\ pb_pc = "returned"
    /\ pb_result.error = "Cloud uploader not set for cloud output destination"
    /\ entry.state.last_batch_id # NoBatch
    /\ state_file.exists

\* C10: when a process_batch called with overrides has returned, the
\* configured values of the processor and of the scraper manager are what
\* they were before the call.
C10_OverridesTransient ==
    (pb_pc = "returned" /\ via = "direct") =>
        /\ batch_size = entry.batch_size
        /\ bp_target_hours = entry.target_hours
        /\ output_destination = entry.output_destination
        /\ disk_space_threshold = entry.disk_space_threshold
        /\ target_hours = entry.manager_target_hours

\* The call that just returned had created its BatchState and failed.
FailedAfterCreation ==
    /\ pb_pc = "returned"
    /\ via \in {"direct", "resume"}
    /\ batch_id # NoBatch
    /\ ~pb_result.success

\* C11: a process_batch that fails after creating its BatchState returns
\* {success: false, error}, and the BatchState of the run in the state file
\* has status failed, the error message and an end_time.
C11_FailureIsRecorded ==
    FailedAfterCreation =>
        /\ pb_result.error # ""
        /\ state_file.exists
        /\ batch_id \in DOMAIN state_file.state.batches
        /\ state_file.state.batches[batch_id].status = "failed"
        /\ state_file.state.batches[batch_id].error = pb_result.error
        /\ state_file.state.batches[batch_id].end_time # NoTime

\* A collaborator raised in the second slice of a round, after the first
\* slice had been counted and flushed.
C11_Witness ==
    /\ FailedAfterCreation
    /\ pb_result.error = "collaborator error"
    /\ state_file.state.batches[batch_id].videos_downloaded > 0
    /\ start_idx > 0

(***************************************************************************)
(* Cancellation: stop_all_scrapers from any thread, while the tasks and    *)
(* the polling loop run.  Every record lasts 20 s and a page holds one     *)
(* record.  The threads are scheduled fairly and every search returns.     *)
(***************************************************************************)
StopAllScrapers ==
    /\ shutdown_flag' = TRUE
    /\ UNCHANGED <<target_hours, mgrrest>>
    /\ UNCHANGED taskvars
    /\ UNCHANGED nonmgr

\* A step of the thread that runs the task of s.
TaskStep(s) ==
    \/ WStart(s)
    \/ WLoop(s)
    \/ WPause(s)
    \/ WSearchRaise(s)
    \/ WSearch(s, SearchResults(s, Len(videos[s]), 1, {EstimatedVideoLength}))
    \/ WPut(s)

\* A step of the thread that runs run_scrapers_until_target.
ManagerStep ==
    \/ MWhile
    \/ MScan
    \/ MQueueGet
    \/ MQueueEmpty
    \/ MCancel
    \/ MReturn

NextStop ==
    \/ \E s \in TwoSources : s \notin scrapers /\ RegisterScraper(s)
    \/ \E qs \in QueryLists : RunScrapersUntilTarget(qs, MidTarget, 1)
    \/ StopAllScrapers
    \/ \E s \in Sources : TaskStep(s)
    \/ ManagerStep

SpecStop ==
    /\ Init
    /\ [][NextStop]_vars
    /\ \A s \in Sources : WF_vars(TaskStep(s))
    /\ WF_vars(ManagerStep)

AllTasksEnded == \A s \in Sources : wpc[s] \in {"none", "done", "cancelled"}

\* C12: once the shutdown flag is set, a task that evaluates its loop
\* condition leaves the loop without a search, and a search is only issued
\* by a task that had passed the condition; all tasks eventually end and
\* run_scrapers_until_target eventually returns; stop_all_scrapers with
\* the flag already set changes nothing.
C12_CooperativeShutdown ==
    /\ [][\A s \in Sources :
            /\ (shutdown_flag /\ wpc[s] = "loop")
                  => (searches'[s] = searches[s] /\ wpc'[s] \in {"loop", "done"})
            /\ searches'[s] # searches[s] => wpc[s] = "search"]_vars
    /\ [][(shutdown_flag /\ StopAllScrapers) => UNCHANGED vars]_vars
    /\ shutdown_flag ~> AllTasksEnded
    /\ (shutdown_flag /\ mpc \notin {"idle", "returned"}) ~> (mpc = "returned")

\* stop_all_scrapers was called before the target was reached: a task ended
\* on the flag after a search, and the call returned.
C12_Witness ==
    /\ shutdown_flag
    /\ mpc = "returned"
    /\ total_seconds < target_hours
    /\ \E s \in Sources : end_reason[s] = "shutdown" /\ searches[s] >= 1

(***************************************************************************)
(* Registration: a name may be registered again before the call.  Every    *)
(* record lasts 20 s and a page holds one record.                          *)
(***************************************************************************)
NextRegister ==
    \/ \E s \in TwoSources : RegisterScraper(s)
    \/ \E qs \in QueryLists : RunScrapersUntilTarget(qs, MidTarget, 1)
    \/ \E s \in Sources : TaskStep(s)
    \/ ManagerStep

SpecRegister == Init /\ [][NextRegister]_vars

\* How many futures of the call are tasks of s.
TasksOf(s) == Cardinality({i \in DOMAIN futures : futures[i] = s})

\* C14: a name registered twice is one scraper with one ScraperStatus
\* entry, and a call launches exactly one task for it: its task is one
\* future of the call until it is done and collected.
C14_RegisterTwice ==
    \A s \in Sources :
        registrations[s] >= 2 =>
            /\ Cardinality({x \in scrapers : x = s}) = 1
            /\ Cardinality({x \in DOMAIN scraper_status : x = s}) = 1
            /\ TasksOf(s) <= 1
            /\ (s \in Range(queries) /\ mpc = "while" /\ total_seconds = 0
                    /\ all_videos = <<>> /\ wpc[s] # "done")
                  => TasksOf(s) = 1 /\ wpc[s] # "none"

\* A call is running the one task of a name that was registered twice.
C14_Witness ==
    /\ registrations["s1"] = 2
    /\ wpc["s1"] = "search"
    /\ searches["s1"] = 1
    /\ TasksOf("s1") = 1

\* C15: a BatchState of the state file whose status is completed or failed
\* is never modified by a later step: no later call reuses its id.
C15_TerminalBatchState ==
    [][\A id \in DOMAIN state_file.state.batches :
          state_file.state.batches[id].status \in {"completed", "failed"}
              => /\ id \in DOMAIN state_file'.state.batches
                 /\ state_file'.state.batches[id] = state_file.state.batches[id]]_vars

\* ---------------------------------------------------------------------
\* Records sent through the pipeline by one call
\* ---------------------------------------------------------------------

SameRecord(v, w) == v.source = w.source /\ v.id = w.id

\* The records of a list, each taken once.
DistinctRecords(vs) ==
    SelectSeq([i \in 1..Len(vs) |->
                  [v |-> vs[i],
                   first |-> \A j \in 1..(i - 1) : ~SameRecord(vs[j], vs[i])]],
              LAMBDA e : e.first)

\* C17: within one process_batch call no record (same source and id) is
\* handed to _process_video_batch twice, in one round or across rounds, so
\* total_video_seconds counts the duration of each record at most once.
C17_SentOnce ==
    /\ \A i, j \in DOMAIN sent : i < j => ~SameRecord(sent[i], sent[j])
    /\ total_video_seconds
          <= SumDur([i \in 1..Len(DistinctRecords(sent)) |-> DistinctRecords(sent)[i].v])


\* ---------------------------------------------------------------------
\* Termination of process_batch
\* ---------------------------------------------------------------------

\* One source with a single page holding a single 20 s record.  Every call
\* of run_scrapers_until_target submits a fresh task that starts at
\* page = 1, so each round whose tasks may search returns this page again.
SourcePage ==
    <<BatchVideo(Pexels, <<"a", ".", "m", "p", "4">>, 1, EstimatedVideoLength)>>

\* The steps of the thread that runs process_batch, every collaborator
\* returning: the disk check, the loop test, a scraping round, a slice and
\* the return.  One 20 s record does not reach any target of the calls on
\* the manager's side, so the polling loop ends without setting the flag.
CallStep ==
    \/ \E enough \in BOOLEAN : EnsureDiskSpace(enough)
    \/ WhileExit
    \/ ScrapingRound(IF shutdown_flag THEN <<>> ELSE SourcePage, FALSE)
    \/ \E outs \in SliceOutcomes, u \in UploaderOutcomes \cup {"moved", "move_failed", "none"},
          disk \in {"enough", "insufficient"} : ProcessSlice(outs, u, disk)
    \/ ReturnResult

NextLoop ==
    \/ bcalls = 0 /\ SetValidationPipeline
    \/ bcalls = 0 /\ SetCloudUploader
    \/ bcalls = 0 /\ "s1" \notin scrapers /\ RegisterScraper("s1")
    \/ \E a \in CallArgs :
            /\ bcalls = 0
            /\ ProcessBatch(a.sources, a.batch_size, a.target_hours, a.output_destination,
                            a.config_override)
    \/ CallStep

\* The calling thread keeps running: a step of the call that is possible
\* is eventually taken.
SpecLoop == ProcessorInit /\ [][NextLoop]_vars /\ WF_vars(CallStep)

\* C18: process_batch terminates.  With every collaborator returning and
\* the source holding finitely many pages, a call that has started
\* eventually returns its result, also when every video of every round
\* fails download or validation.
C18_ProcessBatchTerminates == (pb_pc # "idle") ~> (pb_pc = "idle")


\* C19: every call of run_scrapers_until_target starts with the manager's
\* shutdown flag clear, so the tasks of a call made after an earlier call
\* reached its target (or after stop_all_scrapers) still search.
C19_CallStartsClear == [][calls' # calls => ~shutdown_flag']_vars


(***************************************************************************)
(* process_batch called by several threads of main on one processor.  The  *)
(* processor takes no lock: the calls interleave at the statements that    *)
(* read or write the attributes they share (the state, the clock-derived   *)
(* batch id and total_video_seconds).                                      *)
(***************************************************************************)
MaxValidated == 2

\* main gives each thread one source.
ThreadSource(t) == IF t = 1 THEN "s1" ELSE "s2"

\* The variables of the processor the concurrent calls leave alone.
callerrest ==
    <<validation_pipeline, cloud_uploader, batch_size, bp_target_hours,
      disk_space_threshold, output_destination, now, pb_pc, bcalls, frame, batch_id, pb_result, scraped,
      filtered_videos, start_idx, counts, sent, total_videos_found, rounds, via, resumed,
      entry>>

\* Lines 266-327 run by thread t with main's arguments (no value
\* overrides the configuration): the fail-fast checks, the BatchState under
\* the id of the current second, which replaces an entry of the same id,
\* the save and the reset of the tracking attributes.
CallerEnter(t) ==
    LET valid_sources == SelectSeq(<<ThreadSource(t)>>, LAMBDA s : s \in scrapers)
        err == FailFastError(validation_pipeline, output_destination, cloud_uploader,
                             valid_sources)
        batch_state == [id |-> now, queries |-> valid_sources,
                        batch_size |-> batch_size, target_hours |-> bp_target_hours,
                        output_destination |-> output_destination, start_time |-> now,
                        end_time |-> NoTime, videos_found |-> 0, videos_downloaded |-> 0,
                        videos_validated |-> 0, videos_uploaded |-> 0,
                        videos_failed |-> 0, video_seconds |-> 0, status |-> "running",
                        error |-> ""]
        saved == SaveState([state EXCEPT !.batches = PutBatch(@, now, batch_state),
                                         !.last_batch_id = now],
                           total_videos, total_video_seconds)
    IN  /\ callers[t].pc = "idle"
        /\ IF err # ""
           THEN /\ callers' = [callers EXCEPT ![t].pc = "done"]
                /\ UNCHANGED <<state, state_file, saves, total_videos,
                               total_video_seconds, bp_shutdown_flag>>
           ELSE /\ callers' = [u \in MainThreads |->
                                  IF u = t
                                  THEN [callers[t] EXCEPT !.pc = "run", !.batch_id = now,
                                                          !.stored = TRUE]
                                  ELSE IF callers[u].batch_id = now
                                  THEN [callers[u] EXCEPT !.stored = FALSE]
                                  ELSE callers[u]]
                /\ state' = saved
                /\ state_file' = [exists |-> TRUE, state |-> saved]
                /\ saves' = saves + 1
                /\ total_videos' = NoCounts
                /\ total_video_seconds' = 0
                /\ bp_shutdown_flag' = FALSE
        /\ UNCHANGED callerrest
        /\ UNCHANGED <<mgrvars, taskvars, pipetaskvars>>

\* Lines 505-508, first half: a video of duration d passed validation in a
\* slice of thread t; results["seconds"] takes d and the thread loads
\* self.total_video_seconds.  The slice began while the total was below the
\* target, which MaxValidated videos do not reach.
CallerRead(t, d) ==
    /\ callers[t].pc = "run"
    /\ callers[t].validated < MaxValidated
    /\ callers' = [callers EXCEPT ![t].pc = "add",
                                  ![t].validated = @ + 1,
                                  ![t].validated_seconds = @ + d,
                                  ![t].read = total_video_seconds + d]
    /\ UNCHANGED <<state, state_file, saves, total_videos, total_video_seconds,
                   bp_shutdown_flag>>
    /\ UNCHANGED callerrest
    /\ UNCHANGED <<mgrvars, taskvars, pipetaskvars>>

\* Line 508, second half: the sum is stored in self.total_video_seconds.
CallerAdd(t) ==
    /\ callers[t].pc = "add"
    /\ total_video_seconds' = callers[t].read
    /\ callers' = [callers EXCEPT ![t].pc = "run"]
    /\ UNCHANGED <<state, state_file, saves, total_videos, bp_shutdown_flag>>
    /\ UNCHANGED callerrest
    /\ UNCHANGED <<mgrvars, taskvars, pipetaskvars>>

\* Lines 423-447: the loop of thread t is over (its round came back empty
\* or the total reached the target); its BatchState is completed, which
\* shows in self.state if that dict is still the one stored under the id,
\* the state is saved and the result reports self.total_video_seconds.
CallerReturn(t) ==
    LET id == callers[t].batch_id
        done == [state.batches[id] EXCEPT
                    !.end_time = now, !.status = "completed",
                    !.videos_validated = callers[t].validated,
                    !.video_seconds = total_video_seconds]
        saved == SaveState(IF callers[t].stored
                           THEN [state EXCEPT !.batches[id] = done] ELSE state,
                           total_videos, total_video_seconds)
    IN  /\ callers[t].pc = "run"
        /\ callers' = [callers EXCEPT ![t].pc = "done",
                                      ![t].video_seconds = total_video_seconds]
        /\ state' = saved
        /\ state_file' = [exists |-> TRUE, state |-> saved]
        /\ saves' = saves + 1
        /\ UNCHANGED <<total_videos, total_video_seconds, bp_shutdown_flag>>
        /\ UNCHANGED callerrest
        /\ UNCHANGED <<mgrvars, taskvars, pipetaskvars>>

NextThreads ==
    \/ SetValidationPipeline
    \/ \E s \in TwoSources : s \notin scrapers /\ RegisterScraper(s)
    \/ \E t \in MainThreads : CallerEnter(t)
    \/ \E t \in MainThreads, d \in {EstimatedVideoLength, ShortDuration} : CallerRead(t, d)
    \/ \E t \in MainThreads : CallerAdd(t)
    \/ \E t \in MainThreads : CallerReturn(t)
    \/ Tick

SpecThreads == ProcessorInit /\ [][NextThreads]_vars

\* C20: concurrent process_batch calls on one processor do not interfere:
\* the result of each call reports as video_seconds exactly the total
\* duration of the videos that call validated, and each call has its own
\* BatchState entry.
C20_CallsDoNotInterfere ==
    /\ \A t \in MainThreads :
          (callers[t].pc = "done" /\ callers[t].batch_id # NoBatch)
              => callers[t].video_seconds = callers[t].validated_seconds
    /\ \A t, u \in MainThreads :
          (t # u /\ callers[t].batch_id # NoBatch /\ callers[u].batch_id # NoBatch)
              => callers[t].batch_id # callers[u].batch_id


(***************************************************************************)
(* _global_rate_limit: one cooldown shared by the tasks of all sources.    *)
(***************************************************************************)
mgrother == <<scrapers, registrations, scraper_status, shutdown_flag, results_queue,
                   target_hours, max_videos_per_scraper, mpc, calls, queries, futures,
                   all_videos, total_seconds, returned>>

\* A task that enters the body without taking the lock.
RateLimitEnterUnlocked(s) ==
    /\ rl_pc[s] = "out"
    /\ rl_pc' = [rl_pc EXCEPT ![s] = "in"]
    /\ current_time' = [current_time EXCEPT ![s] = clock]
    /\ UNCHANGED <<rate_limit_lock, last_global_request_time, clock>>
    /\ UNCHANGED mgrother
    /\ UNCHANGED <<taskvars, nonmgr>>

\* Lines 89-90: the task of source s, before a search, takes the lock and
\* reads the time.
RateLimitEnter(s) ==
    /\ rl_pc[s] = "out"
    /\ rate_limit_lock = "free"
    /\ rate_limit_lock' = s
    /\ rl_pc' = [rl_pc EXCEPT ![s] = "in"]
    /\ current_time' = [current_time EXCEPT ![s] = clock]
    /\ UNCHANGED <<last_global_request_time, clock>>
    /\ UNCHANGED mgrother
    /\ UNCHANGED <<taskvars, nonmgr>>

\* Lines 91-97: if less than the limit has passed since the last request
\* the task sleeps for the rest of it (time.sleep returns no earlier);
\* then it stores the time it reads and leaves the lock.
RateLimitLeave(s) ==
    LET time_since_last_request == current_time[s] - last_global_request_time
        sleep_time == IF time_since_last_request < GlobalRateLimit
                      THEN GlobalRateLimit - time_since_last_request ELSE 0
    IN  /\ rl_pc[s] = "in"
        /\ clock >= current_time[s] + sleep_time
        /\ last_global_request_time' = clock
        /\ rate_limit_lock' = IF rate_limit_lock = s THEN "free" ELSE rate_limit_lock
        /\ rl_pc' = [rl_pc EXCEPT ![s] = "out"]
        /\ UNCHANGED <<clock, current_time>>
        /\ UNCHANGED mgrother
        /\ UNCHANGED <<taskvars, nonmgr>>

\* Time passes.
ClockTick ==
    /\ clock < MaxClock
    /\ clock' = clock + 1
    /\ UNCHANGED <<rate_limit_lock, last_global_request_time, rl_pc, current_time>>
    /\ UNCHANGED mgrother
    /\ UNCHANGED <<taskvars, nonmgr>>

NextRate ==
    \/ \E s \in Sources : RateLimitEnter(s)
    \/ \E s \in Sources : RateLimitLeave(s)
    \/ ClockTick

SpecRate == Init /\ [][NextRate]_vars

\* C23: the global rate limiter is one cooldown updated under mutual
\* exclusion: at most one task at a time is inside the read-wait-update of
\* the shared timestamp, and two successive updates of the timestamp, by
\* the same task or by different ones, are at least global_rate_limit
\* apart.
C23_SharedCooldown ==
    /\ [][Cardinality({s \in Sources : rl_pc'[s] = "in"}) <= 1]_vars
    /\ [][last_global_request_time' # last_global_request_time
             => last_global_request_time' - last_global_request_time >= GlobalRateLimit]_vars
    /\ [][\A s \in Sources : (rl_pc[s] = "in" /\ rl_pc'[s] = "out")
             => last_global_request_time' = clock]_vars

\* Two tasks have passed the limiter one after the other: the second found
\* the timestamp of the first and waited.
C23_Witness ==
    /\ last_global_request_time > 0
    /\ \E s \in Sources : rl_pc[s] = "in" /\ current_time[s] < last_global_request_time + GlobalRateLimit
    /\ \E s \in Sources : rl_pc[s] = "out" /\ current_time[s] > 0


\* C24: a record a task pushed on the shared queue after the shutdown flag
\* was set (the task was inside its search call) is not discarded: it is
\* in the list collected before trimming, and when run_scrapers_until_target
\* returns the shared queue is empty, so a later call starts with an empty
\* queue.
C24_LateRecordsDrained ==
    /\ [](mpc = "returned" =>
            /\ results_queue = <<>>
            /\ \A s \in Sources : Range(videos[s]) \subseteq Range(all_videos))
    /\ [][(mpc = "join" /\ mpc' = "returned")
             => Range(results_queue) \subseteq Range(all_videos')]_vars
    /\ [][calls' # calls => results_queue = <<>>]_vars

\* A call has returned with the flag set, and its list holds records that
\* were taken from the queue after the polling loop had ended, pushed by a
\* task that ended on the flag.
C24_Witness ==
    /\ mpc = "returned"
    /\ shutdown_flag
    /\ results_queue = <<>>
    /\ SumDur(all_videos) > total_seconds
    /\ \E s \in Sources : end_reason[s] = "shutdown" /\ videos[s] # <<>>


(***************************************************************************)
(* The error budget of a scraper task.  The task asks for pages 1, 2, ...  *)
(* in turn (the page number advances after a failure as after a page), so  *)
(* which searches failed is told by the pages that fail: page 2 of s1      *)
(* comes between its failing pages, the failing pages of s2 are in a row.  *)
(***************************************************************************)
FailingPages(s) == IF s = "s1" THEN {1, 3, 4} ELSE {1, 2, 3}

NextBudget ==
    \/ \E s \in TwoSources : s \notin scrapers /\ RegisterScraper(s)
    \/ \E qs \in QueryLists : RunScrapersUntilTarget(qs, BigTarget, 1)
    \/ \E s \in Sources : WStart(s)
    \/ \E s \in Sources : WLoop(s)
    \/ \E s \in Sources : WPause(s)
    \/ \E s \in Sources : page[s] \in FailingPages(s) /\ WSearchRaise(s)
    \/ \E s \in Sources :
          /\ page[s] \notin FailingPages(s)
          /\ WSearch(s, SearchResults(s, Len(videos[s]), 1, {EstimatedVideoLength}))
    \/ \E s \in Sources : WPut(s)
    \/ MWhile
    \/ MScan
    \/ MQueueGet
    \/ MQueueEmpty
    \/ MCancel
    \/ MReturn

SpecBudget == Init /\ [][NextBudget]_vars

\* C25: the error budget counts consecutive failures: a task is ended by it
\* only when its last 3 searches failed in a row, so failures separated by
\* a page that was fetched never end the task.
C25_ConsecutiveFailures ==
    \A s \in Sources :
        end_reason[s] = "errors"
            => \A p \in (page[s] - ErrorBudget + 1)..page[s] : p \in FailingPages(s)


(***************************************************************************)
(* The trimming of a slice.  Videos that last longer than the 60 s the     *)
(* allowance assumes: a first round returns m (130 s), a later one a       *)
(* (80 s) and b (70 s); the target is 150 s.                               *)
(***************************************************************************)
TrimTarget == 1500
LongVideo(n, d) == BatchVideo(Pexels, <<"a", ".", "m", "p", "4">>, n, d)
TrimLists == { <<LongVideo(1, 1300)>>, <<LongVideo(2, 800), LongVideo(3, 700)>> }
TrimArgs ==
    { [NoOverrides(<<"s1">>) EXCEPT !.target_hours = PyFloat(TrimTarget)],
      [NoOverrides(<<"s1">>) EXCEPT !.target_hours = PyFloat(TrimTarget),
                                    !.batch_size = PyInt(1)] }

NextTrim ==
    \/ bcalls = 0 /\ SetValidationPipeline
    \/ bcalls = 0 /\ "s1" \notin scrapers /\ RegisterScraper("s1")
    \/ \E a \in TrimArgs :
            /\ bcalls = 0
            /\ ProcessBatch(a.sources, a.batch_size, a.target_hours, a.output_destination,
                            a.config_override)
    \/ \E enough \in BOOLEAN : EnsureDiskSpace(enough)
    \/ WhileExit
    \/ \E vs \in TrimLists, reached \in BOOLEAN :
            rounds < MaxRounds /\ ScrapingRound(vs, reached)
    \/ \E outs \in SliceOutcomes, u \in {"moved", "move_failed", "none"},
          disk \in {"enough", "insufficient"} : ProcessSlice(outs, u, disk)
    \/ ReturnResult

SpecTrim == ProcessorInit /\ [][NextTrim]_vars

\* The bound of lines 389-393: the target and the allowance of one batch.
OvershootBound == bp_target_hours.n + batch_size.n * AssumedVideoSeconds

\* C26: at every point of a process_batch call total_video_seconds is at
\* most target_hours*3600 + batch_size*60: a slice that would push the
\* total past the bound is trimmed first, in order, and no video is handed
\* to the pipeline that would take the total past the bound.
C26_TotalWithinBound ==
    /\ [](pb_pc \in {"disk", "while", "slice", "returned"}
            => total_video_seconds <= OvershootBound)
    /\ [][sent' # sent =>
            total_video_seconds + SumDur(SubSeq(sent', Len(sent) + 1, Len(sent')))
                <= OvershootBound]_vars

\* The slice a, b came after m had been validated: b was trimmed away, a was
\* processed and validated, and the total is 210 s.
C26_Witness ==
    /\ pb_pc \in {"while", "slice"}
    /\ batch_size.n = 2
    /\ Len(filtered_videos) = 2
    /\ Len(sent) = 2
    /\ sent[2] = filtered_videos[1]
    /\ total_video_seconds = 2100


\* C27: after each processed slice the process-wide counters
\* total_videos_processed, _validated, _uploaded and _failed equal the
\* videos_downloaded, _validated, _uploaded and _failed of the BatchState of
\* the run, in memory and in the totals of the state file.
C27_GlobalCounters ==
    (pb_pc \in {"slice", "while"} /\ batch_id \in DOMAIN state.batches) =>
        LET b == state.batches[batch_id]
            of_batch == [processed |-> b.videos_downloaded, validated |-> b.videos_validated,
                         uploaded |-> b.videos_uploaded, failed |-> b.videos_failed]
        IN  /\ total_videos = of_batch
            /\ state_file.state.totals = of_batch

====
